---------------------------- MODULE Spec2Model ----------------------------
(***************************************************************************)
(* State-machine model of the f1.ai video pipeline: the per-stage commands *)
(* (audio, footage, preview, assembly, ...) that coordinate through        *)
(* script.json and the files of one project directory.                     *)
(*                                                                         *)
(* One behaviour is one run of one stage command.  The external tools and  *)
(* APIs (ElevenLabs, yt-dlp, ffmpeg, ffprobe) are the environment: each    *)
(* invocation is a step whose outcome is chosen nondeterministically.      *)
(***************************************************************************)
EXTENDS Integers, Sequences, FiniteSets, TLC

\* Number of segments of the manifest.
NumSegments == 3
\* Longest footage, in whole seconds, and largest --interval of the preview stage.
MaxDuration == 2
MaxInterval == 2
\* Largest value of the --workers option that is explored.
MaxWorkers == 2
\* Longest stream duration given to verify_output, in tenths of a second.
MaxTenths == 45
\* Largest number of pieces a text given to get_team_color is made of.
MaxPieces == 3

Segs == 0 .. (NumSegments - 1)
Times == 0 .. (MaxDuration - 1)

(***************************************************************************)
(* File names and paths.  f"segment_{i:02d}.mp4" / ".mp3" is an injective  *)
(* function of the index; a manifest may also name any other file.         *)
(***************************************************************************)
SegmentName(i) == <<"segment", i>>
StockName == <<"stock", 0>>
NoFootage == <<"none", 0>>
FootageNames == {SegmentName(i) : i \in Segs} \cup {StockName}

Path(dir, name) == <<dir, name[1], name[2]>>
AudioPath(i) == Path("audio", SegmentName(i))
FootagePath(name) == Path("footage", name)
ScriptPath == <<"project", "script", 0>>
ClipPath(i) == Path("temp", SegmentName(i))
OutroPath == <<"temp", "outro", 0>>
CreditsPath == <<"temp", "credits", 0>>
ConcatListPath == <<"temp", "concat.txt", 0>>
ConcatPath == <<"temp", "concat", 0>>
FinalPath == <<"output", "final", 0>>
ThumbnailPath == <<"output", "thumbnail", 0>>
TempFramePath == <<"output", "temp_frame", 0>>
ReportPath == <<"project", "fact_check_results", 0>>
UploadInfoPath == <<"project", "upload_info", 0>>
TokenPath == <<"shared", "youtube_token", 0>>

\* seg.get('footage', f'segment_{i:02d}.mp4')
FootageOrDefault(m, i) == IF m[i] = NoFootage THEN SegmentName(i) ELSE m[i]

VARIABLES
    stage,          \* the stage command of this run
    sequential,     \* --sequential was given
    workers,        \* --workers
    keyFile,        \* the ElevenLabs key file can be read
    disk,           \* the paths that exist in the project directory
    disk0,          \* the paths that existed when the run started
    scriptDisk,     \* script.json on disk: the footage field of each segment
    script,         \* the manifest the running stage holds in memory
    tasks,          \* the prepared task of each segment: the name it works on
    task,           \* state of the work item of each segment
    res,            \* result returned by the work item of each segment
    pc,             \* position of main()
    generated,      \* generated / downloaded counter
    cached,         \* cached counter
    failed,         \* failed counter
    apiCalls,       \* requests sent to ElevenLabs / invocations of yt-dlp
    probeCalls,     \* invocations of ffprobe and of ffmpeg -encoders
    writes,         \* <<stage, path>> for every file written by the run
    scriptWrites,   \* number of times script.json has been written
    noCredits,      \* --no-credits was given (long-form assembler)
    segment_videos, \* the assembler's list of rendered clips
    concat,         \* the lines of temp/concat.txt
    duration,       \* int(duration) of the footage files (preview stage)
    interval,       \* --interval (preview stage)
    frame,          \* state of the extraction of each sampled frame
    frames,         \* the list extract_frames builds for each segment
    results,        \* the keys of main()'s results dict, in insertion order
    script0,        \* script.json as it was when the run started
    only,           \* --segment of the preview stage, -1 when not given
    report,         \* what main() printed about the final video
    input,          \* the arguments of a function applied on its own
    output          \* what that function returned

vars == <<stage, sequential, workers, keyFile, disk, disk0, scriptDisk, script,
          tasks, task, res, pc, generated, cached, failed, apiCalls,
          probeCalls, writes, scriptWrites, noCredits, segment_videos, concat,
          duration, interval, frame, frames, results, script0, only,
          report, input, output>>

\* options and inputs that a run never changes
args == <<stage, sequential, workers, keyFile, disk0, tasks, noCredits,
          duration, interval, script0, only, input>>
told == <<report, output>>
counters == <<generated, cached, failed>>
clips == <<segment_videos, concat>>
preview == <<frame, frames>>

(***************************************************************************)
(* The worker pool.  ThreadPoolExecutor hands the submitted tasks to at    *)
(* most max_workers threads in submission order; the sequential branch     *)
(* runs and reports one task after the other in the main thread.           *)
(***************************************************************************)
\* segments_to_process of the preview stage; every other loop takes them all
Todo == IF only = -1 THEN Segs ELSE {only}

InFlight == {i \in Segs : task[i] \in {"probing", "calling"}}
Busy == {i \in Segs : task[i] \in {"probing", "calling", "extracting"}}

CanStart(i) ==
    /\ i \in Todo
    /\ task[i] = "pending"
    /\ \A j \in Todo : j < i => task[j] # "pending"
    /\ IF sequential
         THEN pc = "pool" /\ \A j \in Todo : j < i => task[j] = "collected"
         ELSE pc \in {"pool", "draining"} /\ Cardinality(Busy) < workers

CanCollect(i) == pc = "pool" /\ task[i] = "finished"

AllCollected == \A i \in Todo : task[i] = "collected"

\* an exception that reaches main(): the sequential loop dies at once, the
\* ThreadPoolExecutor context waits for the tasks still queued or running
Raise == IF sequential THEN "crashed" ELSE "draining"

Drain ==
    /\ pc = "draining"
    /\ \A i \in Segs : task[i] \in {"finished", "collected"}
    /\ pc' = "crashed"
    /\ UNCHANGED <<args, disk, scriptDisk, script, task, res, counters,
                   apiCalls, probeCalls, writes, scriptWrites,
                   clips, preview, results, told>>

RemoveAt(s, k) == [j \in 1 .. (Len(s) - 1) |-> IF j < k THEN s[j] ELSE s[j + 1]]

\* Python's list.sort(key=...): s in ascending order of the parallel sequence
\* of keys, elements with equal keys keeping their order
RECURSIVE ListSort(_, _)
ListSort(s, keys) ==
    IF s = <<>> THEN <<>>
    ELSE LET k == CHOOSE k \in 1 .. Len(s) :
                     /\ \A j \in 1 .. Len(s) : keys[k] <= keys[j]
                     /\ \A j \in 1 .. (k - 1) : keys[j] # keys[k]
         IN <<s[k]>> \o ListSort(RemoveAt(s, k), RemoveAt(keys, k))

\* Every main() first requires script.json; the assemblers also require the
\* audio file of every segment, the thumbnail generator and the uploaders
\* output/final.mp4.  A missing file ends the run with status 1.
\* the audio check left out of main()
MissingAudioUnchecked == {}

MissingAudio == {i \in Segs : AudioPath(i) \notin disk}

\* importing video_assembler_longform runs get_gpu_encoder(), that is
\* ffmpeg -encoders on Darwin, Linux and Windows, before main() is entered
EncoderProbes == IF stage = "longform" THEN 1 ELSE 0

Load ==
    /\ pc = "start"
    /\ probeCalls' = probeCalls + EncoderProbes
    /\ pc' = IF ScriptPath \notin disk THEN "exit1"
             ELSE IF stage \in {"short", "longform"} /\ MissingAudio # {}
             THEN "exit1"
             ELSE IF stage \in {"thumbnail", "upload_short", "upload_long"}
                     /\ FinalPath \notin disk
             THEN "exit1"
             ELSE "pool"
    /\ UNCHANGED <<args, disk, scriptDisk, script, task, res, counters,
                   apiCalls, writes, scriptWrites, clips, preview, results, told>>

(***************************************************************************)
(* Audio stage (audio_generator.py)                                        *)
(***************************************************************************)
\* the existence test made on the footage directory instead of the audio one
AudioCachedElsewhere(i) == FootagePath(SegmentName(i)) \in disk

AudioCached(i) == AudioPath(i) \in disk

AudioStart(i) ==
    /\ stage = "audio"
    /\ CanStart(i)
    /\ IF AudioCached(i)
         THEN /\ task' = [task EXCEPT ![i] = "probing"]
              /\ res' = res
         ELSE IF keyFile
         THEN /\ task' = [task EXCEPT ![i] = "calling"]
              /\ res' = res
         ELSE /\ task' = [task EXCEPT ![i] = "finished"]
              /\ res' = [res EXCEPT ![i] = "raise"]
    /\ UNCHANGED <<args, disk, scriptDisk, script, pc, counters, apiCalls,
                   probeCalls, writes, scriptWrites,
                   clips, preview, results, told>>

\* get_duration of the file found on disk
AudioProbeCached(i) ==
    /\ stage = "audio"
    /\ task[i] = "probing"
    /\ task' = [task EXCEPT ![i] = "finished"]
    /\ res' = [res EXCEPT ![i] = "cached"]
    /\ probeCalls' = probeCalls + 1
    /\ UNCHANGED <<args, disk, scriptDisk, script, pc, counters, apiCalls,
                   writes, scriptWrites,
                   clips, preview, results, told>>

\* generate_audio: status 200 opens the file and writes the content; any other
\* status and any exception are an error, also an exception of f.write after
\* open(output_path, "wb") has created the file
AudioRequest(i) ==
    /\ stage = "audio"
    /\ task[i] = "calling"
    /\ apiCalls' = apiCalls + 1
    /\ task' = [task EXCEPT ![i] = "finished"]
    /\ \E outcome \in {"written", "error", "write failed"} :
         IF outcome = "error"
           THEN /\ res' = [res EXCEPT ![i] = "fail"]
                /\ UNCHANGED <<disk, writes, probeCalls>>
           ELSE /\ disk' = disk \cup {AudioPath(i)}
                /\ writes' = writes \cup {<<"audio", AudioPath(i)>>}
                /\ probeCalls' = IF outcome = "written" THEN probeCalls + 1
                                  ELSE probeCalls
                /\ res' = [res EXCEPT ![i] =
                             IF outcome = "written" THEN "ok" ELSE "fail"]
    /\ UNCHANGED <<args, scriptDisk, script, pc, counters, scriptWrites,
                   clips, preview, results, told>>

\* the body of both reporting loops of main()
Count(i) ==
    /\ cached' = IF res[i] = "cached" THEN cached + 1 ELSE cached
    /\ generated' = IF res[i] = "ok" THEN generated + 1 ELSE generated
    /\ failed' = IF res[i] = "fail" THEN failed + 1 ELSE failed

AudioCollect(i) ==
    /\ stage = "audio"
    /\ CanCollect(i)
    /\ task' = [task EXCEPT ![i] = "collected"]
    /\ IF res[i] = "raise"
         THEN pc' = Raise /\ UNCHANGED <<counters, results>>
         ELSE pc' = pc /\ Count(i) /\ results' = Append(results, i)
    /\ UNCHANGED <<args, disk, scriptDisk, script, res, apiCalls, probeCalls,
                   writes, scriptWrites,
                   clips, preview, told>>

\* total_duration: one ffprobe for every audio file that exists
AudioSummary ==
    /\ stage = "audio"
    /\ pc = "pool"
    /\ AllCollected
    /\ probeCalls' = probeCalls + Cardinality({i \in Segs : AudioPath(i) \in disk})
    /\ pc' = "done"
    /\ UNCHANGED <<args, disk, scriptDisk, script, task, res, counters,
                   apiCalls, writes, scriptWrites,
                   clips, preview, results, told>>

\* the state of main() when it is entered
Fresh ==
    /\ disk0 = disk
    /\ script = scriptDisk
    /\ tasks = [i \in Segs |-> FootageOrDefault(scriptDisk, i)]
    /\ task = [i \in Segs |-> "pending"]
    /\ res = [i \in Segs |-> "none"]
    /\ pc = "start"
    /\ script0 = scriptDisk
    /\ results = <<>>
    /\ frame = [i \in Segs |-> [t \in Times |-> "none"]]
    /\ frames = [i \in Segs |-> <<>>]
    /\ segment_videos = <<>>
    /\ concat = <<>>
    /\ generated = 0 /\ cached = 0 /\ failed = 0
    /\ apiCalls = 0 /\ probeCalls = 0
    /\ writes = {}
    /\ scriptWrites = 0
    /\ report = "none"
    /\ output = <<>>

InitRun ==
    /\ sequential \in BOOLEAN
    /\ workers \in 1 .. MaxWorkers
    /\ input = <<>>
    /\ Fresh

\* no stage is running: a function of the program is applied to `input`
NoRun ==
    /\ stage = "function"
    /\ sequential = TRUE /\ workers = 1
    /\ keyFile = TRUE /\ noCredits = FALSE
    /\ disk = {}
    /\ scriptDisk = [i \in Segs |-> NoFootage]
    /\ duration = 0 /\ interval = 1 /\ only = -1
    /\ Fresh

\* the function returns
Return(value) ==
    /\ stage = "function"
    /\ pc = "start"
    /\ pc' = "done"
    /\ output' = value
    /\ UNCHANGED <<args, disk, scriptDisk, script, task, res, counters,
                   apiCalls, probeCalls, writes, scriptWrites, clips, preview,
                   results, report>>

\* the listings of a directory a run is started on: every file of `all` there,
\* none of them, or one of them missing
Listings(all) == {all, {}} \cup {all \ {p} : p \in all}

\* script.json is there, or the stage is run on a project without one
ScriptFile == {{}, {ScriptPath}}

InitAudio ==
    /\ stage = "audio"
    /\ keyFile \in BOOLEAN
    /\ noCredits = FALSE
    /\ \E sf \in ScriptFile, au \in SUBSET {AudioPath(i) : i \in Segs} :
         disk = sf \cup au
    /\ scriptDisk = [i \in Segs |-> NoFootage]
    /\ duration = 0
    /\ interval = 1
    /\ only = -1
    /\ InitRun

NextAudio ==
    \/ \E i \in Segs : AudioStart(i)
    \/ \E i \in Segs : AudioProbeCached(i)
    \/ \E i \in Segs : AudioRequest(i)
    \/ \E i \in Segs : AudioCollect(i)
    \/ AudioSummary

(***************************************************************************)
(* Footage stage, download-all path (footage_downloader.py)                *)
(***************************************************************************)
FootageCached(i) == FootagePath(tasks[i]) \in disk

\* download_segment up to the existence check
FootageStart(i) ==
    /\ stage = "footage"
    /\ CanStart(i)
    /\ IF FootageCached(i)
         THEN /\ task' = [task EXCEPT ![i] = "finished"]
              /\ res' = [res EXCEPT ![i] = "cached"]
         ELSE /\ task' = [task EXCEPT ![i] = "calling"]
              /\ res' = res
    /\ UNCHANGED <<args, disk, scriptDisk, script, pc, counters, apiCalls,
                   probeCalls, writes, scriptWrites,
                   clips, preview, results, told>>

\* download_video reports success iff the output path exists afterwards
Downloaded(i, files) == FootagePath(tasks[i]) \in files

\* search_youtube, then download_video of the top result into the task's path
FootageDownload(i) ==
    /\ stage = "footage"
    /\ task[i] = "calling"
    /\ task' = [task EXCEPT ![i] = "finished"]
    /\ \E outcome \in {"no results", "no file", "file"} :
         /\ apiCalls' = IF outcome = "no results" THEN apiCalls + 1 ELSE apiCalls + 2
         /\ disk' = IF outcome = "file" THEN disk \cup {FootagePath(tasks[i])} ELSE disk
         /\ writes' = IF outcome = "file"
                        THEN writes \cup {<<"footage", FootagePath(tasks[i])>>}
                        ELSE writes
         /\ res' = [res EXCEPT ![i] =
                      IF outcome # "no results" /\ Downloaded(i, disk')
                        THEN "ok" ELSE "fail"]
    /\ UNCHANGED <<args, scriptDisk, script, pc, counters, probeCalls,
                   scriptWrites,
                   clips, preview, results, told>>

\* segments[idx]['footage'] = f'segment_{idx:02d}.mp4'
RecordedFootage(i) == SegmentName(i)

FootageCollect(i) ==
    /\ stage = "footage"
    /\ CanCollect(i)
    /\ task' = [task EXCEPT ![i] = "collected"]
    /\ Count(i)
    /\ script' = IF res[i] = "ok"
                   THEN [script EXCEPT ![i] = RecordedFootage(i)]
                   ELSE script
    /\ UNCHANGED <<args, disk, scriptDisk, res, pc, apiCalls, probeCalls,
                   writes, scriptWrites,
                   clips, preview, results, told>>

\* json.dump(script, f) follows the loop / the executor's with block
\* the dump moved into the loop: script.json saved as soon as one result is in
CanSaveEarly == pc = "pool" /\ \E i \in Todo : task[i] = "collected"

CanSave == pc = "pool" /\ AllCollected

FootageSave ==
    /\ stage = "footage"
    /\ CanSave
    /\ scriptDisk' = script
    /\ scriptWrites' = scriptWrites + 1
    /\ writes' = writes \cup {<<"footage", ScriptPath>>}
    /\ pc' = "done"
    /\ UNCHANGED <<args, disk, script, task, res, counters, apiCalls,
                   probeCalls,
                   clips, preview, results, told>>

\* a manifest gives each segment no footage field or the name of some file
InitFootage ==
    /\ stage = "footage"
    /\ keyFile = TRUE
    /\ noCredits = FALSE
    /\ scriptDisk \in [Segs -> {NoFootage, StockName}]
    /\ \E sf \in ScriptFile,
          fo \in Listings({FootagePath(n) : n \in FootageNames}) :
         disk = sf \cup fo
    /\ duration = 0
    /\ interval = 1
    /\ only = -1
    /\ InitRun

NextFootage ==
    \/ \E i \in Segs : FootageStart(i)
    \/ \E i \in Segs : FootageDownload(i)
    \/ \E i \in Segs : FootageCollect(i)
    \/ FootageSave

(***************************************************************************)
(* Assembly stage: video_assembler.py ("short", a plain loop in main) and  *)
(* video_assembler_longform.py ("longform", ProcessPoolExecutor or the     *)
(* --sequential loop)                                                      *)
(***************************************************************************)
Assembling == stage \in {"short", "longform"}

\* create_segment_video indexes segment['footage']: KeyError without the key
FootageKeyMissing(i) == script[i] = NoFootage

\* f"{footage_dir}/{segment['footage']}" does not exist
FootageFileMissing(i) == FootagePath(script[i]) \notin disk

RenderStart(i) ==
    /\ Assembling
    /\ CanStart(i)
    /\ IF FootageKeyMissing(i)
         THEN /\ task' = [task EXCEPT ![i] = "finished"]
              /\ res' = [res EXCEPT ![i] = "raise"]
         ELSE IF FootageFileMissing(i)
         THEN /\ task' = [task EXCEPT ![i] = "finished"]
              /\ res' = [res EXCEPT ![i] = "fail"]
         ELSE /\ task' = [task EXCEPT ![i] = "calling"]
              /\ res' = res
    /\ UNCHANGED <<args, disk, scriptDisk, script, pc, counters, apiCalls,
                   probeCalls, writes, scriptWrites, clips, preview, results, told>>

\* output_path of the task: f"{temp_dir}/segment_{i:02d}.mp4"
\* the index left out of the file name: every task renders to one path
RenderOutputShared(i) == ClipPath(0)

RenderOutput(i) == ClipPath(i)

\* the render is a success iff output_path exists after ffmpeg has run
Rendered(i, files) == RenderOutput(i) \in files

\* get_duration of audio and footage, ffmpeg -y ... output_path, and
\* get_duration of the clip when it is there
Render(i) ==
    /\ Assembling
    /\ task[i] = "calling"
    /\ task' = [task EXCEPT ![i] = "finished"]
    /\ \E produced \in BOOLEAN :
         /\ disk' = IF produced THEN disk \cup {RenderOutput(i)} ELSE disk
         /\ writes' = IF produced THEN writes \cup {<<stage, RenderOutput(i)>>}
                                  ELSE writes
    /\ res' = [res EXCEPT ![i] = IF Rendered(i, disk') THEN "ok" ELSE "fail"]
    /\ probeCalls' = probeCalls + (IF Rendered(i, disk') THEN 3 ELSE 2)
    /\ UNCHANGED <<args, scriptDisk, script, pc, counters, apiCalls,
                   scriptWrites, clips, preview, results, told>>

RenderCollect(i) ==
    /\ Assembling
    /\ CanCollect(i)
    /\ task' = [task EXCEPT ![i] = "collected"]
    /\ pc' = IF res[i] = "raise" THEN Raise ELSE pc
    /\ segment_videos' = IF res[i] = "ok"
                           THEN Append(segment_videos, RenderOutput(i))
                           ELSE segment_videos
    /\ results' = IF res[i] # "raise" /\ stage = "longform"
                    THEN Append(results, i) ELSE results
    /\ UNCHANGED <<args, disk, scriptDisk, script, res, counters, apiCalls,
                   probeCalls, writes, scriptWrites, concat, preview, told>>

\* int(x.split('_')[-1].replace('.mp4', '')) of ".../segment_NN.mp4"
SortKey(path) == path[3]

\* list.sort(key=...) of the clip paths
SortByKey(s) == ListSort(s, [j \in 1 .. Len(s) |-> SortKey(s[j])])

\* the concurrent branch of the long-form main() ends with segment_videos.sort
\* segment_videos left in the order the futures completed
OrderedAsCompleted(s) == s

Ordered(s) == IF stage = "longform" /\ ~sequential THEN SortByKey(s) ELSE s

RenderFinish ==
    /\ Assembling
    /\ pc = "pool"
    /\ AllCollected
    /\ segment_videos' = Ordered(segment_videos)
    /\ pc' = IF segment_videos = <<>> THEN "exit1"
             ELSE IF stage = "longform" /\ ~noCredits THEN "outro"
             ELSE "concat"
    /\ UNCHANGED <<args, disk, scriptDisk, script, task, res, counters,
                   apiCalls, probeCalls, writes, scriptWrites, concat, preview, results, told>>

\* create_outro_video, and create_credits_video when the outro failed
Outro ==
    /\ stage = "longform"
    /\ pc = "outro"
    /\ \E made \in {"outro", "credits", "none"} :
         /\ segment_videos' =
              IF made = "outro" THEN Append(segment_videos, OutroPath)
              ELSE IF made = "credits" THEN Append(segment_videos, CreditsPath)
              ELSE segment_videos
         /\ disk' =
              IF made = "outro" THEN disk \cup {OutroPath}
              ELSE IF made = "credits" THEN disk \cup {CreditsPath}
              ELSE disk
         /\ writes' =
              IF made = "outro" THEN writes \cup {<<stage, OutroPath>>}
              ELSE IF made = "credits" THEN writes \cup {<<stage, CreditsPath>>}
              ELSE writes
    /\ pc' = "concat"
    /\ UNCHANGED <<args, scriptDisk, script, task, res, counters, apiCalls,
                   probeCalls, scriptWrites, concat, preview, results, told>>

\* one "file '<clip>'" line per entry of segment_videos
WriteConcatList ==
    /\ Assembling
    /\ pc = "concat"
    /\ concat' = segment_videos
    /\ disk' = disk \cup {ConcatListPath}
    /\ writes' = writes \cup {<<stage, ConcatListPath>>}
    /\ pc' = "encode"
    /\ UNCHANGED <<args, scriptDisk, script, task, res, counters, apiCalls,
                   probeCalls, scriptWrites, segment_videos, preview, results, told>>

\* ffmpeg -f concat; only the long-form main() checks that concat.mp4 exists
ConcatEncode ==
    /\ Assembling
    /\ pc = "encode"
    /\ \E produced \in BOOLEAN :
         /\ disk' = IF produced THEN disk \cup {ConcatPath} ELSE disk
         /\ writes' = IF produced THEN writes \cup {<<stage, ConcatPath>>}
                                  ELSE writes
    /\ pc' = IF stage = "longform" /\ ConcatPath \notin disk' THEN "exit1"
             ELSE "mix"
    /\ UNCHANGED <<args, scriptDisk, script, task, res, counters, apiCalls,
                   probeCalls, scriptWrites, clips, preview, results, told>>

(***************************************************************************)
(* get_team_color (both assemblers) over F1_TEAM_COLORS of config.py.  A   *)
(* text is a sequence of characters; the texts explored are made of a few  *)
(* pieces set one after the other.                                         *)
(***************************************************************************)
F1_TEAM_COLORS == <<
    [keyword |-> <<"r", "e", "d", " ", "b", "u", "l", "l">>,
     color |-> "#3671C6"],
    [keyword |-> <<"r", "e", "d", "b", "u", "l", "l">>,
     color |-> "#3671C6"],
    [keyword |-> <<"m", "c", "l", "a", "r", "e", "n">>,
     color |-> "#FF8000"],
    [keyword |-> <<"f", "e", "r", "r", "a", "r", "i">>,
     color |-> "#E8002D"],
    [keyword |-> <<"m", "e", "r", "c", "e", "d", "e", "s">>,
     color |-> "#27F4D2"],
    [keyword |-> <<"a", "s", "t", "o", "n", " ", "m", "a", "r", "t", "i", "n">>,
     color |-> "#229971"],
    [keyword |-> <<"a", "l", "p", "i", "n", "e">>,
     color |-> "#FF87BC"],
    [keyword |-> <<"w", "i", "l", "l", "i", "a", "m", "s">>,
     color |-> "#64C4FF"],
    [keyword |-> <<"h", "a", "a", "s">>,
     color |-> "#B6BABD"],
    [keyword |-> <<"k", "i", "c", "k", " ", "s", "a", "u", "b", "e", "r">>,
     color |-> "#52E252"],
    [keyword |-> <<"s", "a", "u", "b", "e", "r">>,
     color |-> "#52E252"],
    [keyword |-> <<"v", "e", "t", "t", "e", "l">>,
     color |-> "#3671C6"],
    [keyword |-> <<"w", "e", "b", "b", "e", "r">>,
     color |-> "#3671C6"],
    [keyword |-> <<"n", "o", "r", "r", "i", "s">>,
     color |-> "#FF8000"],
    [keyword |-> <<"p", "i", "a", "s", "t", "r", "i">>,
     color |-> "#FF8000"],
    [keyword |-> <<"v", "e", "r", "s", "t", "a", "p", "p", "e", "n">>,
     color |-> "#3671C6"],
    [keyword |-> <<"h", "a", "m", "i", "l", "t", "o", "n">>,
     color |-> "#27F4D2"],
    [keyword |-> <<"l", "e", "c", "l", "e", "r", "c">>,
     color |-> "#E8002D"],
    [keyword |-> <<"s", "a", "i", "n", "z">>,
     color |-> "#E8002D"],
    [keyword |-> <<"a", "l", "o", "n", "s", "o">>,
     color |-> "#229971"],
    [keyword |-> <<"r", "u", "s", "s", "e", "l", "l">>,
     color |-> "#27F4D2"],
    [keyword |-> <<"p", "e", "r", "e", "z">>,
     color |-> "#3671C6"]>>

F1_DEFAULT_COLOR == "#FFFFFF"

UpperCase == <<"A", "B", "C", "D", "E", "F", "G", "H", "I", "J", "K", "L", "M",
               "N", "O", "P", "Q", "R", "S", "T", "U", "V", "W", "X", "Y", "Z">>
LowerCase == <<"a", "b", "c", "d", "e", "f", "g", "h", "i", "j", "k", "l", "m",
               "n", "o", "p", "q", "r", "s", "t", "u", "v", "w", "x", "y", "z">>

\* str.lower() on the characters used
LowerChar(c) ==
    IF \E n \in 1 .. Len(UpperCase) : UpperCase[n] = c
      THEN LowerCase[CHOOSE n \in 1 .. Len(UpperCase) : UpperCase[n] = c]
      ELSE c

Lower(text) == [n \in 1 .. Len(text) |-> LowerChar(text[n])]

\* keyword in text_lower
Occurs(keyword, text) ==
    \E n \in 1 .. (Len(text) - Len(keyword) + 1) :
        SubSeq(text, n, n + Len(keyword) - 1) = keyword

\* where the keyword first occurs in the text, 0 if it does not
Position(keyword, text) ==
    IF Occurs(keyword, text)
      THEN CHOOSE n \in 1 .. Len(text) :
             /\ SubSeq(text, n, n + Len(keyword) - 1) = keyword
             /\ \A k \in 1 .. (n - 1) :
                   SubSeq(text, k, k + Len(keyword) - 1) # keyword
      ELSE 0

\* the docstring's "priority: first mentioned": the keyword met first in the text
get_team_color_first_mentioned(text) ==
    LET lower == Lower(text)
        hits == {n \in 1 .. Len(F1_TEAM_COLORS) :
                    Occurs(F1_TEAM_COLORS[n].keyword, lower)}
    IN  IF hits = {} THEN F1_DEFAULT_COLOR
        ELSE F1_TEAM_COLORS[
                 CHOOSE n \in hits : \A k \in hits :
                     Position(F1_TEAM_COLORS[n].keyword, lower)
                         <= Position(F1_TEAM_COLORS[k].keyword, lower)].color

\* for keyword, color in F1_TEAM_COLORS.items(): the loop from entry n on
RECURSIVE ScanColors(_, _)
ScanColors(lower, n) ==
    IF n > Len(F1_TEAM_COLORS) THEN F1_DEFAULT_COLOR
    ELSE IF Occurs(F1_TEAM_COLORS[n].keyword, lower)
    THEN F1_TEAM_COLORS[n].color
    ELSE ScanColors(lower, n + 1)

get_team_color(text) == ScanColors(Lower(text), 1)

Pieces ==
    {<<"H", "a", "m", "i", "l", "t", "o", "n">>,
     <<"F", "e", "r", "r", "a", "r", "i">>,
     <<"R", "E", "D">>,
     <<"b", "u", "l", "l">>,
     <<"k", "i", "c", "k", " ">>,
     <<"S", "a", "u", "b", "e", "r">>,
     <<"h", "a", "a", "s">>,
     <<" ">>,
     <<"x">>}

RECURSIVE Flatten(_)
Flatten(ps) == IF ps = <<>> THEN <<>> ELSE Head(ps) \o Flatten(Tail(ps))

InitColor ==
    /\ \E n \in 0 .. MaxPieces : input \in [1 .. n -> Pieces]
    /\ NoRun

ApplyColor == Return(get_team_color(Flatten(input)))

(***************************************************************************)
(* verify_output.  ffprobe prints the stream durations as decimal numbers; *)
(* here a duration is a number of tenths of a second.  float() turns the   *)
(* decimal into the nearest double and the difference of two doubles is    *)
(* rounded to a double again, so both roundings are computed: errors are   *)
(* counted in units of 2^-57 / 10 seconds.                                 *)
(***************************************************************************)
RECURSIVE Pow2(_)
Pow2(n) == IF n = 0 THEN 1 ELSE 2 * Pow2(n - 1)

Abs(x) == IF x < 0 THEN -x ELSE x

\* the binary exponent e of k/10, 2^e <= k/10 < 2^(e+1), for k >= 1
Exponent(k) ==
    CHOOSE e \in -4 .. 20 :
        IF e >= 0 THEN 10 * Pow2(e) <= k /\ k < 10 * Pow2(e + 1)
                  ELSE 10 <= k * Pow2(-e) /\ k * Pow2(-e) < 20

\* 2^n mod 10 for n >= 1
Pow2Mod10(n) == <<2, 4, 8, 6>>[((n - 1) % 4) + 1]

\* float("k/10") - k/10: the 53-bit significand is k * 2^(52-e) / 10 rounded
\* to the nearest integer (it is never half way, k * 2^(52-e) being even)
FloatError(k) ==
    IF k = 0 THEN 0
    ELSE LET e == Exponent(k)
             m == ((k % 10) * Pow2Mod10(52 - e)) % 10
             rho == IF m = 0 THEN 0 ELSE IF m < 5 THEN -m ELSE 10 - m
         IN  rho * Pow2(e + 5)

\* half the gap between the double tol and the next double above it
HalfUlp(tol) == IF tol = 10 THEN 160 ELSE 320

\* the comparison written with >= in place of >
ExceedsOrEquals(v, u, tol) == Abs(v - u) >= tol

\* abs(video_dur - audio_dur) > tol, tol being 1.0 or 2.0: away from the
\* tolerance the rounding cannot change the comparison; at a decimal
\* difference equal to the tolerance the rounded difference of the two
\* doubles exceeds it iff their errors differ by more than half a gap
Exceeds(v, u, tol) ==
    IF Abs(v - u) # tol THEN Abs(v - u) > tol
    ELSE LET hi == IF v > u THEN v ELSE u
             lo == IF v > u THEN u ELSE v
         IN  FloatError(hi) - FloatError(lo) > HalfUlp(tol)

\* abs(width / height - 16/9) > 0.1, for sizes away from that boundary
AspectOff(w, h) == 10 * Abs(9 * w - 16 * h) > 9 * h

\* the tolerances: diff > 1.0 and diff > 2.0
Tolerance(long) == IF long THEN 20 ELSE 10

\* verify_output of the short (long = FALSE) and long-form assembler:
\* TRUE for (True, info), FALSE for (False, message)
VerifyOutput(long, p) ==
    IF Exceeds(p.video, p.audio, Tolerance(long)) THEN FALSE
    ELSE IF long /\ p.width > 0 /\ p.height > 0 /\ AspectOff(p.width, p.height)
    THEN FALSE
    ELSE TRUE

\* what ffprobe reports on final.mp4 in a run of the assembler: matching
\* streams, a video stream 2.8 s too long, a portrait frame
ProbeSamples ==
    {[video |-> 12, audio |-> 12, width |-> 1920, height |-> 1080],
     [video |-> 40, audio |-> 12, width |-> 1920, height |-> 1080],
     [video |-> 12, audio |-> 12, width |-> 1080, height |-> 1920]}

\* the durations and frame sizes verify_output is applied to
Tenths == 0 .. MaxTenths
Resolutions == {<<0, 0>>, <<1920, 1080>>, <<3840, 2160>>, <<1080, 1920>>}
Probes ==
    {[video |-> v, audio |-> a, width |-> r[1], height |-> r[2]] :
        v \in Tenths, a \in Tenths, r \in Resolutions}

InitVerify ==
    /\ input \in [long : BOOLEAN, probe : Probes]
    /\ NoRun

ApplyVerify == Return(VerifyOutput(input.long, input.probe))

\* a failed verification changes the exit status
ExitOnWarning(ok) == IF ok THEN "done" ELSE "exit1"

\* main() after verify_output: SUCCESS or WARNING is printed, nothing exits
ExitAfterVerify(ok) == "done"

\* add_background_music or cp, then verify_output and the report on final.mp4
Finalize ==
    /\ Assembling
    /\ pc = "mix"
    /\ \E produced \in BOOLEAN :
         /\ disk' = IF produced THEN disk \cup {FinalPath} ELSE disk
         /\ writes' = IF produced THEN writes \cup {<<stage, FinalPath>>}
                                  ELSE writes
    /\ IF FinalPath \in disk'
         THEN \E p \in ProbeSamples :
                LET ok == VerifyOutput(stage = "longform", p)
                IN  /\ report' = IF ok THEN "success" ELSE "warning"
                    /\ pc' = ExitAfterVerify(ok)
         ELSE report' = "failed" /\ pc' = "exit1"
    /\ UNCHANGED <<args, scriptDisk, script, task, res, counters, apiCalls,
                   probeCalls, scriptWrites, clips, preview, results, output>>

\* a segment of the manifest names its footage file or has no footage field;
\* temp/ is empty or holds the clips of an earlier run
InitAssemble ==
    /\ stage \in {"short", "longform"}
    /\ keyFile = TRUE
    /\ noCredits \in BOOLEAN
    /\ scriptDisk \in {m \in [Segs -> FootageNames \cup {NoFootage}] :
                         \A i \in Segs : m[i] \in {NoFootage, SegmentName(i)}}
    /\ \E sf \in ScriptFile,
          fo \in Listings({FootagePath(SegmentName(i)) : i \in Segs}),
          au \in Listings({AudioPath(i) : i \in Segs}),
          old \in {{}, {ClipPath(i) : i \in Segs}} :
         disk = sf \cup fo \cup au \cup old
    /\ duration = 0
    /\ interval = 1
    /\ only = -1
    /\ InitRun
    /\ stage = "short" => sequential /\ workers = 1 /\ ~noCredits

NextAssemble ==
    \/ \E i \in Segs : RenderStart(i)
    \/ \E i \in Segs : Render(i)
    \/ \E i \in Segs : RenderCollect(i)
    \/ RenderFinish
    \/ Outro
    \/ WriteConcatList
    \/ ConcatEncode
    \/ Finalize

(***************************************************************************)
(* Preview stage (preview_extractor.py)                                    *)
(***************************************************************************)
MAX_CONCURRENT_EXTRACTIONS == 4

PreviewPath(i, t) == <<"previews", "frame", i * MaxDuration + t>>

\* for t in range(0, int(duration), interval)
Sampled == {t \in Times : t < duration /\ t % interval = 0}

\* main() takes its sequential branch, which calls extract_frames with the
\* default concurrent=True; extract_segment_frames passes concurrent=False
SequentialBranch == sequential \/ Cardinality(Todo) = 1
FramePool == SequentialBranch /\ Cardinality(Sampled) > 1

Extracting(i) == {t \in Times : frame[i][t] = "running"}

PreviewStart(i) ==
    /\ stage = "preview"
    /\ CanStart(i)
    /\ IF FootagePath(tasks[i]) \notin disk
         THEN /\ task' = [task EXCEPT ![i] = "collected"]
              /\ res' = [res EXCEPT ![i] = "fail"]
              /\ UNCHANGED <<frame, probeCalls>>
         ELSE /\ task' = [task EXCEPT ![i] = "extracting"]
              /\ res' = res
              /\ probeCalls' = probeCalls + 1
              /\ frame' = [frame EXCEPT ![i] =
                             [t \in Times |-> IF t \in Sampled THEN "pending"
                                                              ELSE "none"]]
    /\ UNCHANGED <<args, disk, scriptDisk, script, pc, counters, apiCalls,
                   writes, scriptWrites, clips, frames, results, told>>

\* the next task of extract_frames, in the order the tasks were prepared
NextFrame(i, t) ==
    /\ task[i] = "extracting"
    /\ frame[i][t] = "pending"
    /\ \A u \in Times : u < t => frame[i][u] # "pending"

\* the thread pool of extract_frames starts a frame's ffmpeg
FrameStart(i, t) ==
    /\ stage = "preview"
    /\ FramePool
    /\ NextFrame(i, t)
    /\ Cardinality(Extracting(i)) < MAX_CONCURRENT_EXTRACTIONS
    /\ frame' = [frame EXCEPT ![i][t] = "running"]
    /\ UNCHANGED <<args, disk, scriptDisk, script, task, res, pc, counters,
                   apiCalls, probeCalls, writes, scriptWrites, clips, frames, results, told>>

\* extract_single_frame returns os.path.exists(output_path); the sequential
\* loop of extract_frames runs it from start to end before the next frame
FrameDone(i, t) ==
    /\ stage = "preview"
    /\ \/ frame[i][t] = "running"
       \/ ~FramePool /\ NextFrame(i, t)
    /\ frame' = [frame EXCEPT ![i][t] = "done"]
    /\ \E produced \in BOOLEAN :
         /\ disk' = IF produced THEN disk \cup {PreviewPath(i, t)} ELSE disk
         /\ writes' = IF produced THEN writes \cup {<<stage, PreviewPath(i, t)>>}
                                  ELSE writes
    /\ frames' = IF PreviewPath(i, t) \in disk'
                   THEN [frames EXCEPT ![i] = Append(@, t)]
                   ELSE frames
    /\ UNCHANGED <<args, scriptDisk, script, task, res, pc, counters,
                   apiCalls, probeCalls, scriptWrites, clips, results, told>>

\* frames.sort(key=lambda x: x[0]) ends the concurrent branch of extract_frames
SortedFrames(s) == IF FramePool THEN ListSort(s, s) ELSE s

\* extract_frames returns; main() only prints and counts what it returned
PreviewSegmentDone(i) ==
    /\ stage = "preview"
    /\ task[i] = "extracting"
    /\ \A t \in Times : frame[i][t] \in {"none", "done"}
    /\ task' = [task EXCEPT ![i] = "collected"]
    /\ res' = [res EXCEPT ![i] = "ok"]
    /\ frames' = [frames EXCEPT ![i] = SortedFrames(@)]
    /\ UNCHANGED <<args, disk, scriptDisk, script, pc, counters, apiCalls,
                   probeCalls, writes, scriptWrites, clips, frame, results, told>>

PreviewFinish ==
    /\ stage = "preview"
    /\ pc = "pool"
    /\ AllCollected
    /\ pc' = "done"
    /\ UNCHANGED <<args, disk, scriptDisk, script, task, res, counters,
                   apiCalls, probeCalls, writes, scriptWrites, clips, preview, results, told>>

InitPreview ==
    /\ stage = "preview"
    /\ keyFile = TRUE
    /\ noCredits = FALSE
    /\ scriptDisk = [i \in Segs |-> NoFootage]
    /\ \E sf \in ScriptFile,
          fo \in Listings({FootagePath(SegmentName(i)) : i \in Segs}) :
         disk = sf \cup fo
    /\ duration \in 0 .. MaxDuration
    /\ interval \in 1 .. MaxInterval
    /\ only \in {-1} \cup Segs
    /\ InitRun

\* a later run of the stage: os.makedirs(preview_dir, exist_ok=True) keeps
\* the previews directory, which holds the frames of the run before
InitPreviewAgain ==
    /\ stage = "preview"
    /\ keyFile = TRUE
    /\ noCredits = FALSE
    /\ scriptDisk = [i \in Segs |-> NoFootage]
    /\ \E sf \in ScriptFile,
          fo \in Listings({FootagePath(SegmentName(i)) : i \in Segs}) :
         disk = sf \cup fo \cup {PreviewPath(i, t) : i \in Segs, t \in Times}
    /\ duration \in 0 .. MaxDuration
    /\ interval \in 1 .. MaxInterval
    /\ only \in {-1} \cup Segs
    /\ InitRun

NextPreview ==
    \/ \E i \in Segs : PreviewStart(i)
    \/ \E i \in Segs, t \in Times : FrameStart(i, t)
    \/ \E i \in Segs, t \in Times : FrameDone(i, t)
    \/ \E i \in Segs : PreviewSegmentDone(i)
    \/ PreviewFinish

(***************************************************************************)
(* Fact checker, thumbnail generator and uploaders: the files they write   *)
(***************************************************************************)
\* fact_checker.py main(): --output json saves fact_check_results.json
FactCheckRun ==
    /\ stage = "factcheck"
    /\ pc = "pool"
    /\ \E json \in BOOLEAN :
         /\ disk' = IF json THEN disk \cup {ReportPath} ELSE disk
         /\ writes' = IF json THEN writes \cup {<<stage, ReportPath>>} ELSE writes
    /\ pc' = "done"
    /\ UNCHANGED <<args, scriptDisk, script, task, res, counters, apiCalls,
                   probeCalls, scriptWrites, clips, preview, results, told>>

\* extract_best_frame: ffmpeg writes temp_frame.jpg; a frame of more than
\* 1000 bytes is accepted, anything else is a failure that returns at once
ThumbnailFrame ==
    /\ stage = "thumbnail"
    /\ pc = "pool"
    /\ probeCalls' = probeCalls + 1
    /\ \E got \in {"frame", "small", "nothing"} :
         /\ disk' = IF got = "nothing" THEN disk ELSE disk \cup {TempFramePath}
         /\ writes' = IF got = "nothing" THEN writes
                      ELSE writes \cup {<<stage, TempFramePath>>}
         /\ pc' = IF got = "frame" THEN "overlay" ELSE "exit1"
    /\ UNCHANGED <<args, scriptDisk, script, task, res, counters, apiCalls,
                   scriptWrites, clips, preview, results, told>>

\* add_text_overlay writes thumbnail.jpg; temp_frame.jpg is removed either way
ThumbnailOverlay ==
    /\ stage = "thumbnail"
    /\ pc = "overlay"
    /\ \E produced \in BOOLEAN :
         /\ disk' = (IF produced THEN disk \cup {ThumbnailPath} ELSE disk)
                       \ {TempFramePath}
         /\ writes' = IF produced THEN writes \cup {<<stage, ThumbnailPath>>}
                                  ELSE writes
         /\ pc' = IF ThumbnailPath \in disk' THEN "done" ELSE "exit1"
    /\ UNCHANGED <<args, scriptDisk, script, task, res, counters, apiCalls,
                   probeCalls, scriptWrites, clips, preview, results, told>>

\* youtube_uploader*.py main(): nothing is written on a dry run or a declined
\* confirmation; authentication may store the token; upload_info.json
\* follows the upload
UploadRun ==
    /\ stage \in {"upload_short", "upload_long"}
    /\ pc = "pool"
    /\ \E how \in {"dry run", "declined", "no credentials", "upload failed",
                   "uploaded"}, token \in BOOLEAN :
         /\ how = "declined" => stage = "upload_long"
         /\ how \in {"dry run", "declined", "no credentials"} => ~token
         /\ disk' = disk \cup (IF token THEN {TokenPath} ELSE {})
                         \cup (IF how = "uploaded" THEN {UploadInfoPath} ELSE {})
         /\ writes' = writes
                        \cup (IF token THEN {<<stage, TokenPath>>} ELSE {})
                        \cup (IF how = "uploaded" THEN {<<stage, UploadInfoPath>>}
                                                  ELSE {})
         /\ apiCalls' = IF how \in {"upload failed", "uploaded"}
                          THEN apiCalls + 1 ELSE apiCalls
         /\ pc' = IF how \in {"no credentials", "upload failed"} THEN "exit1"
                  ELSE "done"
    /\ UNCHANGED <<args, scriptDisk, script, task, res, counters, probeCalls,
                   scriptWrites, clips, preview, results, told>>

InitPublish ==
    /\ stage \in {"factcheck", "thumbnail", "upload_short", "upload_long"}
    /\ keyFile = TRUE
    /\ noCredits = FALSE
    /\ scriptDisk \in {m \in [Segs -> FootageNames \cup {NoFootage}] :
                         \A i \in Segs : m[i] \in {NoFootage, SegmentName(i)}}
    /\ disk \in SUBSET {ScriptPath, FinalPath, ThumbnailPath, TempFramePath,
                        UploadInfoPath}
    /\ duration = 0
    /\ interval = 1
    /\ only = -1
    /\ InitRun
    /\ sequential /\ workers = 1

NextPublish ==
    \/ FactCheckRun
    \/ ThumbnailFrame
    \/ ThumbnailOverlay
    \/ UploadRun

(***************************************************************************)
(* create_segment_video of the long-form assembler: trimming or looping    *)
(* the footage to the length of the audio; durations in tenths of a second *)
(***************************************************************************)
\* footage_start of the segments used, the last one past the end of any footage
Offsets == {0, 5, 25, MaxTenths + 5}

Min(a, b) == IF a <= b THEN a ELSE b
Max(a, b) == IF a >= b THEN a ELSE b

\* available_duration = footage_duration - start_time
Available(p) == p.footage - p.start

\* int(audio_duration / max(available_duration, 1)): the quotient of two
\* doubles may fall just below a whole number (3.3 / 1.1), and int() then
\* gives one less; a division by 1.0 is exact
Quotients(p) ==
    LET d == Max(Available(p), 10)
    IN  {p.audio \div d}
            \cup (IF p.audio % d = 0 /\ d > 10 THEN {(p.audio \div d) - 1}
                                              ELSE {})

\* the filter graph and what it leaves of the video stream: trim=duration on
\* footage that is long enough, otherwise the footage after start_time
\* played loop_count + 1 times and cut at the audio duration
SegmentFilter(p, quotient) ==
    IF Available(p) >= p.audio
      THEN [looped |-> FALSE, loop_count |-> 0, video |-> p.audio]
      ELSE LET loop_count == quotient + 2
           IN  [looped |-> TRUE,
                loop_count |-> loop_count,
                video |-> IF Available(p) <= 0 THEN 0
                          ELSE Min(p.audio, (loop_count + 1) * Available(p))]

InitLoop ==
    /\ input \in [footage : 1 .. MaxTenths, start : Offsets,
                  audio : 1 .. MaxTenths]
    /\ NoRun

ApplyLoop == \E quotient \in Quotients(input) :
                 Return(SegmentFilter(input, quotient))

(***************************************************************************)
(* Fact checker (fact_checker.py): the claims of a segment and the exit    *)
(***************************************************************************)
MaxClaims == 2

\* F1_KNOWLEDGE_BASE["champions"]: driver and championship years
KB_CHAMPIONS == <<
    [driver |-> <<"v", "e", "r", "s", "t", "a", "p", "p", "e", "n">>,
     years |-> <<<<"2", "0", "2", "1">>,
               <<"2", "0", "2", "2">>,
               <<"2", "0", "2", "3">>,
               <<"2", "0", "2", "4">>>>],
    [driver |-> <<"h", "a", "m", "i", "l", "t", "o", "n">>,
     years |-> <<<<"2", "0", "0", "8">>,
               <<"2", "0", "1", "4">>,
               <<"2", "0", "1", "5">>,
               <<"2", "0", "1", "7">>,
               <<"2", "0", "1", "8">>,
               <<"2", "0", "1", "9">>,
               <<"2", "0", "2", "0">>>>],
    [driver |-> <<"v", "e", "t", "t", "e", "l">>,
     years |-> <<<<"2", "0", "1", "0">>,
               <<"2", "0", "1", "1">>,
               <<"2", "0", "1", "2">>,
               <<"2", "0", "1", "3">>>>],
    [driver |-> <<"a", "l", "o", "n", "s", "o">>,
     years |-> <<<<"2", "0", "0", "5">>,
               <<"2", "0", "0", "6">>>>],
    [driver |-> <<"r", "a", "i", "k", "k", "o", "n", "e", "n">>,
     years |-> <<<<"2", "0", "0", "7">>>>],
    [driver |-> <<"b", "u", "t", "t", "o", "n">>,
     years |-> <<<<"2", "0", "0", "9">>>>],
    [driver |-> <<"r", "o", "s", "b", "e", "r", "g">>,
     years |-> <<<<"2", "0", "1", "6">>>>],
    [driver |-> <<"s", "c", "h", "u", "m", "a", "c", "h", "e", "r">>,
     years |-> <<<<"1", "9", "9", "4">>,
               <<"1", "9", "9", "5">>,
               <<"2", "0", "0", "0">>,
               <<"2", "0", "0", "1">>,
               <<"2", "0", "0", "2">>,
               <<"2", "0", "0", "3">>,
               <<"2", "0", "0", "4">>>>]>>

\* F1_KNOWLEDGE_BASE["teams_2024"]: team and its drivers
KB_TEAMS_2024 == <<
    [team |-> <<"r", "e", "d", " ", "b", "u", "l", "l">>,
     drivers |-> <<<<"v", "e", "r", "s", "t", "a", "p", "p", "e", "n">>,
                 <<"p", "e", "r", "e", "z">>>>],
    [team |-> <<"f", "e", "r", "r", "a", "r", "i">>,
     drivers |-> <<<<"l", "e", "c", "l", "e", "r", "c">>,
                 <<"s", "a", "i", "n", "z">>>>],
    [team |-> <<"m", "e", "r", "c", "e", "d", "e", "s">>,
     drivers |-> <<<<"h", "a", "m", "i", "l", "t", "o", "n">>,
                 <<"r", "u", "s", "s", "e", "l", "l">>>>],
    [team |-> <<"m", "c", "l", "a", "r", "e", "n">>,
     drivers |-> <<<<"n", "o", "r", "r", "i", "s">>,
                 <<"p", "i", "a", "s", "t", "r", "i">>>>],
    [team |-> <<"a", "s", "t", "o", "n", " ", "m", "a", "r", "t", "i", "n">>,
     drivers |-> <<<<"a", "l", "o", "n", "s", "o">>,
                 <<"s", "t", "r", "o", "l", "l">>>>],
    [team |-> <<"a", "l", "p", "i", "n", "e">>,
     drivers |-> <<<<"g", "a", "s", "l", "y">>,
                 <<"o", "c", "o", "n">>>>],
    [team |-> <<"w", "i", "l", "l", "i", "a", "m", "s">>,
     drivers |-> <<<<"a", "l", "b", "o", "n">>,
                 <<"s", "a", "r", "g", "e", "a", "n", "t">>>>],
    [team |-> <<"h", "a", "a", "s">>,
     drivers |-> <<<<"m", "a", "g", "n", "u", "s", "s", "e", "n">>,
                 <<"h", "u", "l", "k", "e", "n", "b", "e", "r", "g">>>>],
    [team |-> <<"k", "i", "c", "k", " ", "s", "a", "u", "b", "e", "r">>,
     drivers |-> <<<<"b", "o", "t", "t", "a", "s">>,
                 <<"z", "h", "o", "u">>>>],
    [team |-> <<"r", "b">>,
     drivers |-> <<<<"t", "s", "u", "n", "o", "d", "a">>,
                 <<"r", "i", "c", "c", "i", "a", "r", "d", "o">>>>]>>

\* F1_KNOWLEDGE_BASE["records"]: record_type.replace("_", " ") and the holders,
\* holder.split("|")
KB_RECORDS == <<
    [words |-> <<"m", "o", "s", "t", " ", "w", "i", "n", "s">>,
     holders |-> {<<"h", "a", "m", "i", "l", "t", "o", "n">>}],
    [words |-> <<"m", "o", "s", "t", " ", "p", "o", "l", "e", "s">>,
     holders |-> {<<"h", "a", "m", "i", "l", "t", "o", "n">>}],
    [words |-> <<"m", "o", "s", "t", " ", "c", "h", "a", "m", "p", "i", "o", "n", "s", "h", "i", "p", "s">>,
     holders |-> {<<"s", "c", "h", "u", "m", "a", "c", "h", "e", "r">>,
                  <<"h", "a", "m", "i", "l", "t", "o", "n">>}],
    [words |-> <<"m", "o", "s", "t", " ", "p", "o", "d", "i", "u", "m", "s">>,
     holders |-> {<<"h", "a", "m", "i", "l", "t", "o", "n">>}],
    [words |-> <<"y", "o", "u", "n", "g", "e", "s", "t", " ", "c", "h", "a", "m", "p", "i", "o", "n">>,
     holders |-> {<<"v", "e", "t", "t", "e", "l">>}],
    [words |-> <<"o", "l", "d", "e", "s", "t", " ", "c", "h", "a", "m", "p", "i", "o", "n">>,
     holders |-> {<<"f", "a", "n", "g", "i", "o">>}]>>

ClaimSamples ==
    {<<"H", "a", "m", "i", "l", "t", "o", "n", " ", "w", "o", "n", " ", "i", "n", " ", "2", "0", "0", "8">>,
     <<"S", "a", "i", "n", "z", " ", "d", "r", "o", "v", "e", " ", "f", "o", "r", " ", "F", "e", "r", "r", "a", "r", "i">>,
     <<"H", "a", "m", "i", "l", "t", "o", "n", " ", "h", "a", "s", " ", "t", "h", "e", " ", "m", "o", "s", "t", " ", "w", "i", "n", "s">>,
     <<"S", "e", "n", "n", "a", " ", "w", "o", "n", " ", "i", "n", " ", "1", "9", "8", "8">>}

\* a FactCheckResult: the verdict, the confidence in hundredths and the
\* number of requests.get calls made to reach it
Result(verdict, confidence, requests) ==
    [verdict |-> verdict, confidence |-> confidence, requests |-> requests]

\* verify_against_knowledge_base returned None
None == Result("none", 0, 0)

\* verify_against_knowledge_base: champions, then teams_2024, then records
verify_against_knowledge_base(claim) ==
    LET claim_lower == Lower(claim)
    IN  IF \E n \in 1 .. Len(KB_CHAMPIONS) :
               /\ Occurs(KB_CHAMPIONS[n].driver, claim_lower)
               /\ \E y \in 1 .. Len(KB_CHAMPIONS[n].years) :
                      Occurs(KB_CHAMPIONS[n].years[y], claim)
          THEN Result("verified", 100, 0)
        ELSE IF \E n \in 1 .. Len(KB_TEAMS_2024) :
               /\ Occurs(KB_TEAMS_2024[n].team, claim_lower)
               /\ \E d \in 1 .. Len(KB_TEAMS_2024[n].drivers) :
                      Occurs(KB_TEAMS_2024[n].drivers[d], claim_lower)
          THEN Result("verified", 95, 0)
        ELSE IF \E n \in 1 .. Len(KB_RECORDS) :
               /\ Occurs(KB_RECORDS[n].words, claim_lower)
               /\ \E h \in KB_RECORDS[n].holders : Occurs(h, claim_lower)
          THEN Result("verified", 90, 0)
        ELSE None

\* what the search request comes back with: organic results without or with a
\* word of the contradictions list, no usable result, or an exception
WebResponses == {"supporting", "contradicting", "nothing", "exception"}

\* verify_with_web_search: no request without the requests library or a key
verify_with_web_search(has_requests, api_key, response) ==
    IF ~has_requests THEN Result("unverified", 0, 0)
    ELSE IF ~api_key THEN Result("unverified", 0, 0)
    ELSE IF response = "supporting" THEN Result("verified", 70, 1)
    ELSE IF response = "contradicting" THEN Result("disputed", 50, 1)
    ELSE IF response = "nothing" THEN Result("unverified", 30, 1)
    ELSE Result("error", 0, 1)

\* verify_against_knowledge_base on each of the claims used, worked out once
KnowledgeBase ==
    [claim \in ClaimSamples |-> verify_against_knowledge_base(claim)]

\* the web search asked before the knowledge base
check_claim_web_first(claim, use_web, has_requests, api_key, response) ==
    LET web == verify_with_web_search(has_requests, api_key, response)
        kb == KnowledgeBase[claim]
    IN  IF use_web /\ web.verdict # "error" THEN web
        ELSE IF kb # None /\ kb.confidence >= 90 THEN kb
        ELSE Result("unverified", 0, IF use_web THEN web.requests ELSE 0)

\* check_claim handing on whatever the web search returned
check_claim_any_web(claim, use_web, has_requests, api_key, response) ==
    LET kb == KnowledgeBase[claim]
        web == verify_with_web_search(has_requests, api_key, response)
    IN  IF kb # None /\ kb.confidence >= 90 THEN kb
        ELSE IF use_web THEN web
        ELSE Result("unverified", 0, 0)

\* check_claim: the knowledge base first, the web search if enabled, and
\* "unverified" when neither gave a verdict
check_claim(claim, use_web, has_requests, api_key, response) ==
    LET kb == KnowledgeBase[claim]
        web == verify_with_web_search(has_requests, api_key, response)
    IN  IF kb # None /\ kb.confidence >= 90 THEN kb
        ELSE IF use_web
        THEN IF web.verdict # "error" THEN web
             ELSE Result("unverified", 0, web.requests)
        ELSE Result("unverified", 0, 0)

\* check_claim on its own: a claim, the options and what the search would say
InitClaim ==
    /\ input \in [claim : ClaimSamples, use_web : BOOLEAN,
                  has_requests : BOOLEAN, api_key : BOOLEAN,
                  response : WebResponses]
    /\ NoRun

ApplyClaim ==
    Return(check_claim(input.claim, input.use_web, input.has_requests,
                       input.api_key, input.response))

\* the overall verdict with a verified claim looked for before a disputed one
OverallVerifiedFirst(verdicts) ==
    IF verdicts = <<>> THEN "no_claims"
    ELSE IF \A n \in 1 .. Len(verdicts) : verdicts[n] = "verified"
    THEN "verified"
    ELSE IF \E n \in 1 .. Len(verdicts) : verdicts[n] = "verified"
    THEN "partially_verified"
    ELSE IF \E n \in 1 .. Len(verdicts) : verdicts[n] = "disputed"
    THEN "disputed"
    ELSE "unverified"

\* check_segment: the overall verdict of the verdicts of its claims
Overall(verdicts) ==
    IF verdicts = <<>> THEN "no_claims"
    ELSE IF \A n \in 1 .. Len(verdicts) : verdicts[n] = "verified"
    THEN "verified"
    ELSE IF \E n \in 1 .. Len(verdicts) : verdicts[n] = "disputed"
    THEN "disputed"
    ELSE IF \E n \in 1 .. Len(verdicts) : verdicts[n] = "verified"
    THEN "partially_verified"
    ELSE "unverified"

check_segment(claims, use_web, has_requests, api_key, responses) ==
    LET claim_results == [n \in 1 .. Len(claims) |->
                            check_claim(claims[n], use_web, has_requests,
                                        api_key, responses[n])]
    IN  [claims |-> claim_results,
         overall_verdict |->
             Overall([n \in 1 .. Len(claims) |-> claim_results[n].verdict])]

Verdicts == {"verified", "unverified", "disputed", "no_claims",
             "partially_verified"}

\* the claims extract_claims finds in the text of a segment
ClaimLists == UNION {[1 .. n -> ClaimSamples] : n \in 0 .. MaxClaims}

\* main(): the five counters of the summary, all zero before the loop
ZeroStats == [v \in Verdicts |-> 0]

\* stats[result.overall_verdict] += 1, which is a KeyError for a verdict
\* that is no key of stats
Tally(stats, overall_verdict) ==
    [stats EXCEPT ![overall_verdict] = @ + 1]

RECURSIVE SumRequests(_)
SumRequests(rs) ==
    IF rs = <<>> THEN 0 ELSE Head(rs).requests + SumRequests(Tail(rs))

\* main(): segments_to_check is the segment of --segment, an IndexError if
\* the script has no such segment, or every segment
FactCheckSelect ==
    /\ stage = "factcheck"
    /\ pc = "pool"
    /\ IF input.segment >= NumSegments
         THEN pc' = "crashed" /\ output' = output
         ELSE /\ pc' = "checking"
              /\ output' = [stats |-> ZeroStats,
                            todo |-> IF input.segment = -1
                                       THEN [n \in 1 .. NumSegments |-> n - 1]
                                       ELSE <<input.segment>>,
                            segment_id |-> -1,
                            claims |-> <<>>,
                            results |-> <<>>,
                            open |-> FALSE,
                            strict |-> FALSE]
    /\ UNCHANGED <<args, disk, scriptDisk, script, task, res, counters,
                   apiCalls, probeCalls, writes, scriptWrites, clips, preview,
                   results, report>>

\* one turn of the loop of main(): check_segment on the next segment and the
\* count of its overall verdict; `open` remembers whether a claim checked
\* so far came out unverified or disputed
CheckSegment ==
    /\ stage = "factcheck"
    /\ pc = "checking"
    /\ output.todo # <<>>
    /\ \E claims \in ClaimLists :
       \E responses \in [1 .. Len(claims) -> WebResponses] :
         LET result == check_segment(claims, input.web_search,
                                     input.has_requests, input.api_key,
                                     responses)
         IN  /\ output' = [output EXCEPT
                   !.stats = Tally(@, result.overall_verdict),
                   !.todo = Tail(@),
                   !.segment_id = Head(output.todo),
                   !.claims = claims,
                   !.results = result.claims,
                   !.open = @ \/ \E n \in 1 .. Len(claims) :
                              result.claims[n].verdict
                                  \in {"unverified", "disputed"}]
             /\ apiCalls' = apiCalls + SumRequests(result.claims)
    /\ UNCHANGED <<args, disk, scriptDisk, script, task, res, pc, counters,
                   probeCalls, writes, scriptWrites, clips, preview,
                   results, report>>

\* if args.strict: sys.exit(2) on a disputed count, sys.exit(1) on an
\* unverified count
StrictExit(stats) ==
    IF stats["disputed"] > 0 THEN "exit2"
    ELSE IF stats["unverified"] > 0 THEN "exit1"
    ELSE "done"

\* the end of main(): the summary, fact_check_results.json with --output json,
\* and with --strict sys.exit(2) or sys.exit(1) by the counts
FactCheckExit ==
    /\ stage = "factcheck"
    /\ pc = "checking"
    /\ output.todo = <<>>
    /\ \E json \in BOOLEAN :
         /\ disk' = IF json THEN disk \cup {ReportPath} ELSE disk
         /\ writes' = IF json THEN writes \cup {<<stage, ReportPath>>} ELSE writes
    /\ \E strict \in BOOLEAN :
         /\ output' = [output EXCEPT !.strict = strict]
         /\ pc' = IF strict THEN StrictExit(output.stats) ELSE "done"
    /\ UNCHANGED <<args, scriptDisk, script, task, res, counters, apiCalls,
                   probeCalls, scriptWrites, clips, preview, results, report>>

InitFactCheck ==
    /\ stage = "factcheck"
    /\ sequential = TRUE /\ workers = 1
    /\ keyFile = TRUE /\ noCredits = FALSE
    /\ disk \in {{ScriptPath}, {}}
    /\ scriptDisk = [i \in Segs |-> NoFootage]
    /\ duration = 0 /\ interval = 1 /\ only = -1
    /\ input \in [web_search : BOOLEAN, has_requests : BOOLEAN,
                  api_key : BOOLEAN, segment : -1 .. NumSegments]
    /\ Fresh

NextFactCheck ==
    \/ Load
    \/ FactCheckSelect
    \/ CheckSegment
    \/ FactCheckExit

(***************************************************************************)
(* Long-form uploader (youtube_uploader_longform.py), step by step.        *)
(* `output` is the log of what the run asked of the YouTube API.           *)
(***************************************************************************)
CaptionsPath == <<"output", "captions", 0>>
SecretsPath == <<"shared", "youtube_client_secrets", 0>>

\* what is typed at "Proceed with upload? [y/N]: "
Answers == {<<"y">>, <<"Y">>, <<" ", "y", " ">>, <<"n">>, <<>>,
            <<"y", "e", "s">>}

\* str.strip() for the blank
RECURSIVE StripLeft(_)
StripLeft(text) ==
    IF text # <<>> /\ Head(text) = " " THEN StripLeft(Tail(text)) ELSE text

RECURSIVE StripRight(_)
StripRight(text) ==
    IF text # <<>> /\ text[Len(text)] = " "
      THEN StripRight(SubSeq(text, 1, Len(text) - 1))
      ELSE text

Strip(text) == StripRight(StripLeft(text))

\* an upload that goes ahead unless the answer is n
ConfirmedUnlessNo(answer) == Lower(Strip(answer)) # <<"n">>

\* confirm = input(...).strip().lower(); the upload goes on when confirm == 'y'
Confirmed(answer) == Lower(Strip(answer)) = <<"y">>

\* main() from the metadata display to the confirmation
UploadConfirm ==
    /\ stage = "upload_long"
    /\ pc = "pool"
    /\ pc' = IF input.dry_run THEN "done"
             ELSE IF ~Confirmed(input.answer) THEN "done"
             ELSE "authenticate"
    /\ UNCHANGED <<args, disk, scriptDisk, script, task, res, counters,
                   apiCalls, probeCalls, writes, scriptWrites, clips, preview,
                   results, told>>

\* get_authenticated_service: a valid token is used as it is, an expired one
\* is refreshed, otherwise the OAuth flow runs from the client secrets file;
\* a new token is stored; without the secrets file main() exits with 1
Authenticate ==
    /\ stage = "upload_long"
    /\ pc = "authenticate"
    /\ \E how \in {"valid", "refreshed", "flow", "none"} :
         /\ how \in {"valid", "refreshed"} => TokenPath \in disk
         /\ how = "flow" => SecretsPath \in disk
         /\ how = "none" => SecretsPath \notin disk
         /\ disk' = IF how \in {"refreshed", "flow"}
                      THEN disk \cup {TokenPath} ELSE disk
         /\ writes' = IF how \in {"refreshed", "flow"}
                        THEN writes \cup {<<stage, TokenPath>>} ELSE writes
         /\ output' = IF how = "none" THEN output
                      ELSE Append(output, "authenticate")
         /\ pc' = IF how = "none" THEN "exit1" ELSE "upload"
    /\ UNCHANGED <<args, scriptDisk, script, task, res, counters, apiCalls,
                   probeCalls, scriptWrites, clips, preview, results, report>>

\* upload_video: videos().insert in chunks until a response is there, or an
\* exception of the client; an empty response is "Upload failed", exit 1
UploadVideo ==
    /\ stage = "upload_long"
    /\ pc = "upload"
    /\ apiCalls' = apiCalls + 1
    /\ \E response \in {"video", "empty", "raise"} :
         /\ output' = output \o <<"videos.insert">>
                        \o (IF response = "video" THEN <<"video_id">> ELSE <<>>)
         /\ pc' = IF response = "video"
                    THEN IF CaptionsPath \in disk0 THEN "captions"
                         ELSE IF ThumbnailPath \in disk0 THEN "thumbnail"
                         ELSE "save"
                  ELSE IF response = "empty" THEN "exit1"
                  ELSE "crashed"
    /\ UNCHANGED <<args, disk, scriptDisk, script, task, res, counters,
                   probeCalls, writes, scriptWrites, clips, preview, results,
                   report>>

\* if has_captions: upload_captions, False when the file has gone, when the
\* request raises or when there is no response
UploadCaptions ==
    /\ stage = "upload_long"
    /\ pc = "captions"
    /\ \E uploaded \in BOOLEAN, removed \in BOOLEAN :
         /\ removed => ~uploaded
         /\ disk' = IF removed THEN disk \ {CaptionsPath} ELSE disk
         /\ apiCalls' = IF CaptionsPath \in disk' THEN apiCalls + 1
                        ELSE apiCalls
         /\ output' = output
                        \o (IF CaptionsPath \in disk' THEN <<"captions.insert">>
                                                      ELSE <<>>)
                        \o (IF uploaded THEN <<>> ELSE <<"captions failed">>)
    /\ pc' = IF ThumbnailPath \in disk0 THEN "thumbnail" ELSE "save"
    /\ UNCHANGED <<args, scriptDisk, script, task, res, counters, probeCalls,
                   writes, scriptWrites, clips, preview, results, report>>

\* if has_thumbnail: upload_thumbnail, False in the same three cases
UploadThumbnail ==
    /\ stage = "upload_long"
    /\ pc = "thumbnail"
    /\ \E uploaded \in BOOLEAN, removed \in BOOLEAN :
         /\ removed => ~uploaded
         /\ disk' = IF removed THEN disk \ {ThumbnailPath} ELSE disk
         /\ apiCalls' = IF ThumbnailPath \in disk' THEN apiCalls + 1
                        ELSE apiCalls
         /\ output' = output
                        \o (IF ThumbnailPath \in disk' THEN <<"thumbnails.set">>
                                                       ELSE <<>>)
                        \o (IF uploaded THEN <<>> ELSE <<"thumbnail failed">>)
    /\ pc' = "save"
    /\ UNCHANGED <<args, scriptDisk, script, task, res, counters, probeCalls,
                   writes, scriptWrites, clips, preview, results, report>>

\* upload_info.json is written at the end of the `if response:` branch
SaveUploadInfo ==
    /\ stage = "upload_long"
    /\ pc = "save"
    /\ disk' = disk \cup {UploadInfoPath}
    /\ writes' = writes \cup {<<stage, UploadInfoPath>>}
    /\ pc' = "done"
    /\ UNCHANGED <<args, scriptDisk, script, task, res, counters, apiCalls,
                   probeCalls, scriptWrites, clips, preview, results, told>>

InitUpload ==
    /\ stage = "upload_long"
    /\ sequential = TRUE /\ workers = 1
    /\ keyFile = TRUE /\ noCredits = FALSE
    /\ disk \in SUBSET {ScriptPath, FinalPath, CaptionsPath, ThumbnailPath,
                        TokenPath, SecretsPath, UploadInfoPath}
    /\ scriptDisk = [i \in Segs |-> NoFootage]
    /\ duration = 0 /\ interval = 1 /\ only = -1
    /\ input \in [dry_run : BOOLEAN, answer : Answers]
    /\ Fresh

NextUpload ==
    \/ Load
    \/ UploadConfirm
    \/ Authenticate
    \/ UploadVideo
    \/ UploadCaptions
    \/ UploadThumbnail
    \/ SaveUploadInfo

(***************************************************************************)
(* extract_claims (fact_checker.py): sentences and the claim patterns, the *)
(* regular expressions being searched with re.IGNORECASE                   *)
(***************************************************************************)
Digits == {"0", "1", "2", "3", "4", "5", "6", "7", "8", "9"}

\* \w
IsWord(c) == c \in Digits \/ c = "_" \/ \E n \in 1 .. Len(LowerCase) :
                                           c = LowerCase[n] \/ c = UpperCase[n]

\* the literal at position n of s
At(lit, s, n) == n >= 1 /\ n + Len(lit) - 1 <= Len(s)
                     /\ SubSeq(s, n, n + Len(lit) - 1) = lit

CharAt(s, n, set) == n >= 1 /\ n <= Len(s) /\ s[n] \in set
WordAt(s, n) == n >= 1 /\ n <= Len(s) /\ IsWord(s[n])

\* r'in (\d{4})'
YearPattern(s) ==
    \E n \in 1 .. Len(s) :
        At(<<"i", "n", " ">>, s, n) /\ \A k \in 3 .. 6 : CharAt(s, n + k, Digits)

\* r'(\w+) (won|became|clinched|secured) .*(championship|title)'
ChampionshipPattern(s) ==
    \E n \in 1 .. Len(s) :
    \E verb \in {<<"w", "o", "n">>, <<"b", "e", "c", "a", "m", "e">>, <<"c", "l", "i", "n", "c", "h", "e", "d">>, <<"s", "e", "c", "u", "r", "e", "d">>} :
        /\ WordAt(s, n)
        /\ At(<<" ">>, s, n + 1)
        /\ At(verb, s, n + 2)
        /\ At(<<" ">>, s, n + 2 + Len(verb))
        /\ \E m \in (n + 3 + Len(verb)) .. Len(s) :
               At(<<"c", "h", "a", "m", "p", "i", "o", "n", "s", "h", "i", "p">>, s, m) \/ At(<<"t", "i", "t", "l", "e">>, s, m)

\* r'(first|youngest|oldest|most|fastest|slowest)'
RecordPattern(s) ==
    \E word \in {<<"f", "i", "r", "s", "t">>, <<"y", "o", "u", "n", "g", "e", "s", "t">>, <<"o", "l", "d", "e", "s", "t">>, <<"m", "o", "s", "t">>, <<"f", "a", "s", "t", "e", "s", "t">>,
                 <<"s", "l", "o", "w", "e", "s", "t">>} : Occurs(word, s)

\* r'(\d+) (wins?|poles?|podiums?|championships?|points?)'
StatisticPattern(s) ==
    \E n \in 1 .. Len(s) :
    \E unit \in {<<"w", "i", "n">>, <<"p", "o", "l", "e">>, <<"p", "o", "d", "i", "u", "m">>, <<"c", "h", "a", "m", "p", "i", "o", "n", "s", "h", "i", "p">>, <<"p", "o", "i", "n", "t">>} :
        CharAt(s, n, Digits) /\ At(<<" ">>, s, n + 1) /\ At(unit, s, n + 2)

\* r'(\w+) (joined|drove for|raced for|moved to) (\w+)'
TeamPattern(s) ==
    \E n \in 1 .. Len(s) :
    \E verb \in {<<"j", "o", "i", "n", "e", "d">>, <<"d", "r", "o", "v", "e", " ", "f", "o", "r">>, <<"r", "a", "c", "e", "d", " ", "f", "o", "r">>, <<"m", "o", "v", "e", "d", " ", "t", "o">>} :
        /\ WordAt(s, n)
        /\ At(<<" ">>, s, n + 1)
        /\ At(verb, s, n + 2)
        /\ At(<<" ">>, s, n + 2 + Len(verb))
        /\ WordAt(s, n + 3 + Len(verb))

\* r'(won|finished|crashed|retired) (at|in|during) (\w+)'
RacePattern(s) ==
    \E n \in 1 .. Len(s) :
    \E verb \in {<<"w", "o", "n">>, <<"f", "i", "n", "i", "s", "h", "e", "d">>, <<"c", "r", "a", "s", "h", "e", "d">>, <<"r", "e", "t", "i", "r", "e", "d">>} :
    \E prep \in {<<"a", "t">>, <<"i", "n">>, <<"d", "u", "r", "i", "n", "g">>} :
        /\ At(verb, s, n)
        /\ At(<<" ">>, s, n + Len(verb))
        /\ At(prep, s, n + Len(verb) + 1)
        /\ At(<<" ">>, s, n + Len(verb) + 1 + Len(prep))
        /\ WordAt(s, n + Len(verb) + 2 + Len(prep))

\* patterns[k - 1] searched in the sentence put in lower case
ClaimPattern(k, s) ==
    CASE k = 1 -> YearPattern(s)
      [] k = 2 -> ChampionshipPattern(s)
      [] k = 3 -> RecordPattern(s)
      [] k = 4 -> StatisticPattern(s)
      [] k = 5 -> TeamPattern(s)
      [] k = 6 -> RacePattern(s)

\* re.search(pattern, sentence, re.IGNORECASE) for some pattern of the list
HasPattern(sentence) ==
    \E s \in {Lower(sentence)} : \E k \in 1 .. 6 : ClaimPattern(k, s)

\* re.split(r'[.!?]', text): the pieces between the marks, empty ones included
RECURSIVE SplitFrom(_, _)
SplitFrom(text, piece) ==
    IF text = <<>> THEN <<piece>>
    ELSE IF Head(text) \in {".", "!", "?"}
    THEN <<piece>> \o SplitFrom(Tail(text), <<>>)
    ELSE SplitFrom(Tail(text), Append(piece, Head(text)))

\* sentence.strip() of every piece
Sentences(text) ==
    LET pieces == SplitFrom(text, <<>>)
    IN  [n \in 1 .. Len(pieces) |-> Strip(pieces[n])]

\* a loop over the patterns that goes on after a match: one copy of the
\* sentence for every pattern found in it
ClaimsOfSentenceNoBreak(sentence) ==
    LET found == {k \in 1 .. 6 :
                    \E s \in {Lower(sentence)} : ClaimPattern(k, s)}
    IN  [n \in 1 .. Cardinality(found) |-> sentence]

\* for pattern in patterns: append the sentence at the first match and break
ClaimsOfSentence(sentence) ==
    IF HasPattern(sentence) THEN <<sentence>> ELSE <<>>

RECURSIVE ClaimsFrom(_)
ClaimsFrom(sentences) ==
    IF sentences = <<>> THEN <<>>
    ELSE (IF Head(sentences) = <<>> THEN <<>>
          ELSE ClaimsOfSentence(Head(sentences)))
            \o ClaimsFrom(Tail(sentences))

extract_claims(text) == ClaimsFrom(Sentences(text))

ClaimPieces ==
    {<<"I", "n", " ", "2", "0", "0", "8">>, <<"1", "0", "4", " ", "w", "i", "n", "s">>, <<"2", "5">>, <<"5", " ", "p", "o", "i", "n", "t", "s">>, <<"H", "a", "m", "i", "l", "t", "o", "n", " ", "w", "o", "n">>,
     <<"t", "h", "e", " ", "t", "i", "t", "l", "e">>, <<".">>, <<" ">>}

InitExtract ==
    /\ \E n \in 0 .. MaxPieces : input \in [1 .. n -> ClaimPieces]
    /\ NoRun

ApplyExtract == Return(extract_claims(Flatten(input)))

(***************************************************************************)
(* generate_srt_captions (long-form assembler, --no-text): one cue per     *)
(* segment of the script; times in milliseconds                            *)
(***************************************************************************)
\* get_duration of the audio files, which the clips are cut to
DurationSamples == {1500, 59000, 3540500}

\* format_time: hours, minutes and seconds with milliseconds, HH:MM:SS,mmm
format_time(ms) ==
    <<ms \div 3600000, (ms % 3600000) \div 60000, (ms % 60000) \div 1000,
      ms % 1000>>

\* current_time when the loop reaches segment i: the durations of all the
\* segments before it
RECURSIVE CurrentTime(_, _)
CurrentTime(durations, i) ==
    IF i = 0 THEN 0
    ELSE CurrentTime(durations, i - 1) + durations[i - 1]

\* the cues written, in the order of the segments of the script
generate_srt_captions(durations) ==
    [n \in 1 .. NumSegments |->
        [index |-> n,
         start |-> format_time(CurrentTime(durations, n - 1)),
         end |-> format_time(CurrentTime(durations, n - 1)
                               + durations[n - 1])]]

\* main() with --no-text once final.mp4 is made: `rendered` are the segments
\* whose clips are in the concat list
InitCaptions ==
    /\ input \in [durations : [Segs -> DurationSamples],
                  rendered : SUBSET Segs \ {{}}]
    /\ NoRun

ApplyCaptions == Return(generate_srt_captions(input.durations))

(***************************************************************************)
(* Footage stage, --segment N --url U (footage_downloader.py)              *)
(***************************************************************************)
\* download_video returns a pair: (True, None) when the output path exists
\* after yt-dlp, (False, stderr[:200]) otherwise
download_video(path, files) ==
    IF path \in files THEN <<TRUE, "None">> ELSE <<FALSE, "stderr">>

\* the truth value of a tuple in `if download_video(...):`
Truth(value) == Len(value) > 0

\* main(): the download from the URL, and on a true result the footage field
\* and script.json; "Download failed" otherwise
FootageUrl ==
    /\ stage = "footage_url"
    /\ pc = "pool"
    /\ apiCalls' = apiCalls + 1
    /\ \E produced \in BOOLEAN :
         LET output_file == FootagePath(SegmentName(input.segment))
             files == IF produced THEN disk \cup {output_file} ELSE disk
             saved == Truth(download_video(output_file, files))
         IN  /\ disk' = files
             /\ script' = IF saved
                            THEN [script EXCEPT ![input.segment] =
                                    SegmentName(input.segment)]
                            ELSE script
             /\ scriptDisk' = IF saved THEN script' ELSE scriptDisk
             /\ scriptWrites' = IF saved THEN scriptWrites + 1
                                ELSE scriptWrites
             /\ writes' = writes
                  \cup (IF produced THEN {<<stage, output_file>>} ELSE {})
                  \cup (IF saved THEN {<<stage, ScriptPath>>} ELSE {})
             /\ report' = IF saved THEN "saved" ELSE "failed"
    /\ pc' = "done"
    /\ UNCHANGED <<args, task, res, counters, probeCalls, clips, preview,
                   results, output>>

InitUrl ==
    /\ stage = "footage_url"
    /\ sequential = TRUE /\ workers = 1
    /\ keyFile = TRUE /\ noCredits = FALSE
    /\ scriptDisk \in [Segs -> {NoFootage, StockName}]
    /\ \E sf \in ScriptFile,
          fo \in Listings({FootagePath(SegmentName(i)) : i \in Segs}) :
         disk = sf \cup fo
    /\ duration = 0 /\ interval = 1 /\ only = -1
    /\ input \in [segment : Segs]
    /\ Fresh

NextUrl == Load \/ FootageUrl

\* check_segment on its own: the claims extract_claims found in the text, the
\* options and what the search would say to each claim
SegmentInputs ==
    UNION {[claims : {claims},
            responses : [1 .. Len(claims) -> WebResponses],
            use_web : BOOLEAN, has_requests : BOOLEAN, api_key : BOOLEAN] :
           claims \in ClaimLists}

InitSegment ==
    /\ input \in SegmentInputs
    /\ NoRun

ApplySegment ==
    Return(check_segment(input.claims, input.use_web, input.has_requests,
                         input.api_key, input.responses))

(***************************************************************************)
(* wrap_text of video_assembler.py and video_assembler_longform.py, the    *)
(* same code in both: the text is a tuple of characters, a line the words  *)
(* put on it joined by single spaces.                                      *)
(***************************************************************************)
MaxText == 5
MaxWidth == 4

Whitespace == {" ", "\n"}

\* text.split(): the runs of characters that are not whitespace
RECURSIVE split(_, _)
split(text, word) ==
    IF text = <<>> THEN IF word = <<>> THEN <<>> ELSE <<word>>
    ELSE IF Head(text) \in Whitespace
    THEN (IF word = <<>> THEN <<>> ELSE <<word>>) \o split(Tail(text), <<>>)
    ELSE split(Tail(text), Append(word, Head(text)))

\* " ".join(words)
RECURSIVE Join(_)
Join(words) ==
    IF words = <<>> THEN <<>>
    ELSE IF Len(words) = 1 THEN words[1]
    ELSE words[1] \o <<" ">> \o Join(Tail(words))

\* the word fits on the line without the space in front of it counted
FitsWithoutSpace(current_length, word, max_chars) ==
    current_length + Len(word) <= max_chars

\* if current_length + len(word) + 1 <= max_chars
Fits(current_length, word, max_chars) ==
    current_length + Len(word) + 1 <= max_chars

\* the loop over the words and the last line after it
RECURSIVE WrapFrom(_, _, _, _, _)
WrapFrom(words, lines, current_line, current_length, max_chars) ==
    IF words = <<>>
      THEN IF current_line # <<>> THEN Append(lines, Join(current_line))
           ELSE lines
    ELSE IF Fits(current_length, Head(words), max_chars)
      THEN WrapFrom(Tail(words), lines, Append(current_line, Head(words)),
                    current_length + Len(Head(words)) + 1, max_chars)
    ELSE WrapFrom(Tail(words),
                  IF current_line # <<>>
                    THEN Append(lines, Join(current_line)) ELSE lines,
                  <<Head(words)>>, Len(Head(words)), max_chars)

wrap_text(text, max_chars) ==
    WrapFrom(split(text, <<>>), <<>>, <<>>, 0, max_chars)

\* wrap_text on its own: a text of letters, spaces and newlines, and a width
InitWrap ==
    /\ input \in [text : UNION {[1 .. n -> {"a", "b", " ", "\n"}] :
                                n \in 0 .. MaxText},
                  max_chars : 0 .. MaxWidth]
    /\ NoRun

ApplyWrap == Return(wrap_text(input.text, input.max_chars))

Init == InitAudio \/ InitFootage \/ InitAssemble \/ InitPreview \/ InitPublish

Next ==
    \/ Load
    \/ NextAudio
    \/ NextFootage
    \/ NextAssemble
    \/ NextPreview
    \/ NextPublish
    \/ Drain

Spec == Init /\ [][Next]_vars

\* one stage, or the stages a property is about, at a time
NextFetch == Load \/ NextAudio \/ NextFootage \/ Drain
SpecFetch == (InitAudio \/ InitFootage) /\ [][NextFetch]_vars

NextFootageRun == Load \/ NextFootage
SpecFootage == InitFootage /\ [][NextFootageRun]_vars

NextAssembleRun == Load \/ NextAssemble \/ Drain
SpecAssemble == InitAssemble /\ [][NextAssembleRun]_vars

NextPreviewRun == Load \/ NextPreview
SpecPreview == InitPreview /\ [][NextPreviewRun]_vars

\* a function of the program applied to every input of a bounded set
SpecVerify == InitVerify /\ [][ApplyVerify]_vars
SpecColor == InitColor /\ [][ApplyColor]_vars
SpecLoop == InitLoop /\ [][ApplyLoop]_vars

\* the fact checker over the claims of the segments
SpecFactCheck == InitFactCheck /\ [][NextFactCheck]_vars
SpecClaim == InitClaim /\ [][ApplyClaim]_vars

\* the long-form uploader
SpecUpload == InitUpload /\ [][NextUpload]_vars
SpecExtract == InitExtract /\ [][ApplyExtract]_vars
SpecCaptions == InitCaptions /\ [][ApplyCaptions]_vars

\* the footage stage for one segment and a URL
SpecUrl == InitUrl /\ [][NextUrl]_vars
SpecSegment == InitSegment /\ [][ApplySegment]_vars
SpecWrap == InitWrap /\ [][ApplyWrap]_vars
SpecPreviewAgain == InitPreviewAgain /\ [][NextPreviewRun]_vars

-----------------------------------------------------------------------------
\* Properties of the stages

Range(s) == {s[k] : k \in 1 .. Len(s)}

IsClip(path) == path[1] = "temp" /\ path[2] = "segment"

\* the run got past the checks of Load and has ended, normally or not
Ended == pc \in {"done", "crashed"}

\* C1: in the long-form assembler the segment clips named in the concat list
\* are in strictly ascending segment-index order, whatever order the renders
\* completed in
C1_ConcatInIndexOrder ==
    stage = "longform" =>
        \A a, b \in 1 .. Len(concat) :
            (a < b /\ IsClip(concat[a]) /\ IsClip(concat[b]))
                => SortKey(concat[a]) < SortKey(concat[b])

\* a concurrent long-form run whose renders were collected out of index
\* order and whose concat list has been written with at least two clips
C1_Witness ==
    /\ stage = "longform" /\ ~sequential
    /\ \E a, b \in 1 .. Len(results) :
           a < b /\ results[a] > results[b]
              /\ ClipPath(results[a]) \in Range(concat)
              /\ ClipPath(results[b]) \in Range(concat)


\* every file a task of the fetch stages would produce was there at the start
AllTargetsPresent ==
    /\ stage \in {"audio", "footage"}
    /\ ScriptPath \in disk0
    /\ \A i \in Segs :
          IF stage = "audio" THEN AudioPath(i) \in disk0
                             ELSE FootagePath(tasks[i]) \in disk0

AllCached == cached = NumSegments /\ generated = 0 /\ failed = 0

\* C2 as written: a re-run of the audio or footage stage over a complete
\* directory makes no external call of any kind (no API request, no yt-dlp
\* and no ffprobe process) and ends with every item cached, none generated
\* and none failed
C2_NoExternalCalls ==
    AllTargetsPresent =>
        /\ apiCalls = 0 /\ probeCalls = 0
        /\ pc = "done" => AllCached

\* C2 amended: such a re-run makes no text-to-speech request and no yt-dlp
\* search or download and ends with every item cached, none generated and
\* none failed; no audio or footage file is written and the manifest keeps
\* its content. The footage stage starts no process at all, the audio stage
\* runs ffprobe once per cached file and once more per file for the total
C2_NoFetchCalls ==
    AllTargetsPresent =>
        /\ apiCalls = 0
        /\ writes \subseteq {<<"footage", ScriptPath>>}
        /\ scriptDisk = script0
        /\ stage = "footage" => probeCalls = 0
        /\ pc = "done" =>
              /\ AllCached
              /\ stage = "audio" => probeCalls = 2 * NumSegments

\* a finished audio re-run over a complete directory
C2_Witness ==
    /\ AllTargetsPresent /\ stage = "audio"
    /\ pc = "done" /\ AllCached /\ probeCalls > 0

\* the footage file of segment i, under the name the manifest gives it or the
\* default one, was not in the footage directory when the run started
FootageAbsent(i) == FootagePath(FootageOrDefault(script0, i)) \notin disk0

\* the manifest and every audio file were there: the assembler gets past Load
Loadable == ScriptPath \in disk0 /\ MissingAudio = {}

\* C3: in both assemblers a segment whose footage file is absent is reported
\* failed and left out of the concat list, the other segments are still
\* rendered and the stage goes on to write the concat list instead of aborting
C3_MissingFootageSkipped ==
    (Assembling /\ Loadable) =>
        /\ \A i \in Segs :
              (FootageAbsent(i) /\ task[i] \in {"finished", "collected"})
                  => res[i] = "fail" /\ RenderOutput(i) \notin Range(concat)
        /\ pc \in {"done", "crashed", "exit1"} =>
              /\ \A i \in Segs : task[i] = "collected"
              /\ <<stage, ConcatListPath>> \in writes

\* C4: in the audio and footage stages a task that fails is recorded as
\* failed and the others still run, so that when the stage ends every segment
\* has been processed and generated + cached + failed = number of segments
C4_CountersAddUp ==
    (stage \in {"audio", "footage"} /\ Ended) =>
        /\ \A i \in Segs : task[i] = "collected" /\ res[i] # "raise"
        /\ generated + cached + failed = NumSegments

\* C5: when the footage stage has ended, for every segment downloaded in this
\* run the footage name saved in script.json is the name of the file the
\* download wrote, and that file is in the footage directory
C5_ManifestNamesDownload ==
    (stage = "footage" /\ pc = "done") =>
        \A i \in Segs :
            res[i] = "ok" =>
                /\ scriptDisk[i] = tasks[i]
                /\ FootagePath(scriptDisk[i]) \in disk

\* C6: the footage stage writes script.json exactly once, after every task
\* has been collected; until then the file on disk is the one the run found
C6_ManifestSavedOnceAtEnd ==
    stage = "footage" =>
        /\ scriptWrites = (IF pc = "done" THEN 1 ELSE 0)
        /\ scriptWrites > 0 => AllCollected
        /\ scriptWrites = 0 => scriptDisk = script0

\* a concurrent footage run that downloaded something and saved the manifest
C6_Witness ==
    /\ stage = "footage" /\ ~sequential
    /\ pc = "done" /\ scriptWrites = 1
    /\ generated > 0 /\ scriptDisk # script0


\* C7: script.json is written by the footage stage and by no other stage,
\* whose runs leave it as they found it; while the segments of an assembler
\* are being rendered, the only files written are the clips of the segments
\* whose render has run, each under its own index
C7_OnlyFootageWritesManifest ==
    /\ \A w \in writes : w[2] = ScriptPath => w[1] = "footage"
    /\ stage # "footage" => scriptWrites = 0 /\ scriptDisk = script0
    /\ (Assembling /\ pc \in {"pool", "draining"}) =>
           writes \subseteq
               {<<stage, ClipPath(i)>> :
                   i \in {j \in Segs : task[j] \in {"finished", "collected"}}}

\* a concurrent long-form run that rendered every segment and wrote its
\* video, the manifest untouched
C7_Witness ==
    /\ stage = "longform" /\ ~sequential /\ pc = "done"
    /\ \A i \in Segs : <<stage, ClipPath(i)>> \in writes
    /\ <<stage, FinalPath>> \in writes
    /\ scriptDisk = script0 /\ scriptWrites = 0

\* the file a per-segment task writes
OutputPath(i) ==
    CASE stage = "audio" -> AudioPath(i)
      [] stage = "footage" -> FootagePath(tasks[i])
      [] OTHER -> RenderOutput(i)

\* C8: in the audio, footage and long-form stages two tasks that run at the
\* same time never have the same output path
C8_DisjointOutputs ==
    stage \in {"audio", "footage", "longform"} =>
        \A i, j \in Segs :
            (i # j /\ task[i] = "calling" /\ task[j] = "calling")
                => OutputPath(i) # OutputPath(j)

RunningFrames == {<<i, t>> \in Segs \X Times : frame[i][t] = "running"}

\* the ffmpeg, yt-dlp and API invocations of the stage that are running
Invocations ==
    IF stage = "preview"
      THEN IF FramePool
             THEN Cardinality(RunningFrames)
             ELSE Cardinality({i \in Segs : task[i] = "extracting" /\
                                 \E t \in Times : frame[i][t] = "pending"})
      ELSE Cardinality(InFlight)

PoolStage == stage \in {"audio", "footage", "preview", "longform"}

\* C9: in the stages that take --workers, run without --sequential, the
\* number of invocations running at the same time never exceeds --workers
C9_WithinWorkers ==
    (PoolStage /\ ~sequential) => Invocations <= workers

\* C10: with --sequential at most one invocation of the stage is running at
\* any moment and a segment is not started before the segments ahead of it
\* in the manifest are done
C10_SequentialIsSerial ==
    (PoolStage /\ sequential) =>
        /\ Invocations <= 1
        /\ \A i, j \in Todo :
              (i < j /\ task[j] # "pending") => task[i] = "collected"


\* C11: a render whose ffmpeg did not write its clip in this run is not
\* reported as a success, whatever the temp directory held before the run
C11_FailedRenderReported ==
    Assembling =>
        \A i \in Segs :
            (task[i] \in {"finished", "collected"}
                /\ <<stage, RenderOutput(i)>> \notin writes)
                    => res[i] # "ok"


NothingStarted ==
    /\ apiCalls = 0 /\ writes = {}
    /\ \A i \in Segs : task[i] = "pending"

AudioMissingAtStart == \E i \in Segs : AudioPath(i) \notin disk0

\* C12 as written: without script.json every stage exits with status 1 and
\* has invoked no external tool or API; with the audio file of a segment
\* missing both assemblers exit with status 1 before any render is started
C12_MissingFileFatal ==
    /\ (ScriptPath \notin disk0 /\ pc # "start") =>
           pc = "exit1" /\ NothingStarted /\ probeCalls = 0
    /\ (Assembling /\ AudioMissingAtStart /\ pc # "start") =>
           pc = "exit1" /\ NothingStarted

\* C12 amended: the same, except that the long-form assembler has by then run
\* ffmpeg -encoders once, when its module was imported; no other tool or API
\* is invoked and nothing is written
C12_MissingFileFatalAfterImport ==
    /\ (ScriptPath \notin disk0 /\ pc # "start") =>
           pc = "exit1" /\ NothingStarted /\ probeCalls = EncoderProbes
    /\ (Assembling /\ AudioMissingAtStart /\ pc # "start") =>
           pc = "exit1" /\ NothingStarted /\ probeCalls = EncoderProbes

\* the long-form assembler has exited for want of an audio file, the manifest
\* being there
C12_Witness ==
    /\ stage = "longform" /\ ScriptPath \in disk0 /\ AudioMissingAtStart
    /\ pc = "exit1" /\ probeCalls = 1


\* C13: in both assemblers, once final.mp4 exists after the mix, a failed
\* verification is a warning and the run ends with status 0: a run that
\* printed the warning is done, and a run is done only with the final video
\* there and its path reported
C13_VerifyWarningOnly ==
    Assembling =>
        /\ report = "warning" => pc = "done"
        /\ report = "failed" => pc = "exit1" /\ FinalPath \notin disk
        /\ pc = "done" => FinalPath \in disk /\ report \in {"success", "warning"}

\* a short-form run that ended with the warning
C13_Witness ==
    stage = "short" /\ report = "warning" /\ pc = "done"


Returned == stage = "function" /\ pc = "done"

\* the decimal difference of the two durations of the input, in tenths
Difference == Abs(input.probe.video - input.probe.audio)

AspectKnownOff ==
    /\ input.long /\ input.probe.width > 0 /\ input.probe.height > 0
    /\ AspectOff(input.probe.width, input.probe.height)

\* C14 as written: verify_output fails when the difference of the probed
\* durations exceeds the tolerance (1.0 s short, 2.0 s long-form) and
\* succeeds when it does not, a difference equal to the tolerance included
C14_ToleranceDecides ==
    Returned =>
        output = ~(Difference > Tolerance(input.long))

\* C14 amended: verify_output fails when the difference exceeds the
\* tolerance, and the long-form one also when the frame is not 16:9; it
\* succeeds when the difference is below the tolerance and the frame passes.
\* At a decimal difference equal to the tolerance the doubles decide: it
\* succeeds when both durations are exact in binary (multiples of 0.5 s), but
\* 2.2 s against 1.2 s fails the 1.0 s tolerance while 2.1 s against 1.1 s
\* passes it
C14_ToleranceDecidesInDoubles ==
    Returned =>
        /\ Difference > Tolerance(input.long) => output = FALSE
        /\ AspectKnownOff => output = FALSE
        /\ (Difference < Tolerance(input.long) /\ ~AspectKnownOff)
              => output = TRUE
        /\ (Difference = Tolerance(input.long) /\ ~AspectKnownOff
              /\ input.probe.video % 5 = 0 /\ input.probe.audio % 5 = 0)
              => output = TRUE
        /\ (~input.long /\ input.probe.video = 22 /\ input.probe.audio = 12)
              => output = FALSE
        /\ (~input.long /\ input.probe.video = 21 /\ input.probe.audio = 11)
              => output = TRUE

\* the short verify_output has returned failure for 2.2 s against 1.2 s
C14_Witness ==
    /\ Returned /\ ~input.long
    /\ input.probe.video = 22 /\ input.probe.audio = 12
    /\ output = FALSE


\* the table entries whose keyword occurs in the lower-cased input text
Matching ==
    {n \in 1 .. Len(F1_TEAM_COLORS) :
        Occurs(F1_TEAM_COLORS[n].keyword, Lower(Flatten(input)))}

Checked == stage = "factcheck" /\ ScriptPath \in disk0
               /\ pc \in {"checking", "done", "exit1", "exit2"}

\* C16: with --strict the fact checker exits non-zero whenever a claim
\* extracted from a checked segment came out unverified or disputed, and
\* exits 0 only when no claim did
C16_StrictExitsOnOpenClaim ==
    (Checked /\ pc # "checking" /\ output.strict)
        => (pc # "done" <=> output.open)

\* the knowledge base has an answer for the claim given to check_claim
KnowledgeBaseHit == KnowledgeBase[input.claim] # None

\* C17: check_claim asks the knowledge base first: a claim the knowledge base
\* verifies is returned as verified without a web request; a web request is
\* made only for a claim the knowledge base did not verify, with web search
\* enabled and an API key; without web search or without a key no request
\* is made and such a claim is unverified
C17_KnowledgeBaseFirst ==
    Returned =>
        /\ KnowledgeBaseHit
             => output.verdict = "verified" /\ output.requests = 0
        /\ output.requests > 0
             => /\ ~KnowledgeBaseHit
                /\ input.use_web /\ input.api_key
        /\ (~input.use_web \/ ~input.api_key)
             => /\ output.requests = 0
                /\ ~KnowledgeBaseHit => output.verdict = "unverified"

\* a claim of the knowledge base checked with web search, a key and the
\* requests library at hand: verified, and nothing was asked of the web
C17_Witness ==
    /\ Returned
    /\ input.use_web /\ input.api_key /\ input.has_requests
    /\ KnowledgeBaseHit
    /\ output.verdict = "verified" /\ output.requests = 0

\* C18: when the footage left after the start offset is shorter than the
\* audio, the long-form renderer loops it so that loop_count + 1 repetitions
\* cover the audio duration and the video of the clip lasts exactly the
\* audio duration, whatever the footage duration, start offset and audio
\* duration
C18_LoopCoversAudio ==
    (Returned /\ output.looped)
        => /\ (output.loop_count + 1) * Available(input) >= input.audio
           /\ output.video = input.audio


\* the segments whose clip ffmpeg wrote in this run
RenderedNow == {i \in Segs : <<stage, ClipPath(i)>> \in writes}

\* C19: the long-form concat list names exactly the clips of the segments
\* whose render succeeded in this run, then at most one trailing clip, the
\* outro or, only when the outro could not be made, the legacy credits; the
\* trailing clip is last, outro and credits never come together, and with
\* --no-credits there is no trailing clip
C19_ConcatListOfThisRun ==
    (stage = "longform" /\ concat # <<>>)
        => /\ Range(SelectSeq(concat, IsClip))
                = {ClipPath(i) : i \in RenderedNow}
           /\ Len(SelectSeq(concat, IsClip)) = Cardinality(RenderedNow)
           /\ \A k \in 1 .. Len(concat) :
                ~IsClip(concat[k])
                    => /\ k = Len(concat)
                       /\ concat[k] \in {OutroPath, CreditsPath}
                       /\ ~noCredits
                       /\ concat[k] = CreditsPath
                            => <<stage, OutroPath>> \notin writes


\* the requests of the log that attach something to the video
Attachments == {"captions.insert", "thumbnails.set"}

\* what holds of the long-form uploader whatever the confirmation: captions
\* and thumbnail are sent only after the upload has returned the video, a
\* failed caption or thumbnail upload leads on to upload_info.json and a
\* normal end, and upload_info.json is written only after the video
UploadOrder ==
    /\ \A k \in 1 .. Len(output) :
         output[k] \in Attachments
            => \E j \in 1 .. (k - 1) : output[j] = "video_id"
    /\ \A k \in 1 .. Len(output) :
         output[k] \in {"captions failed", "thumbnail failed"}
            => pc \in {"thumbnail", "save", "done"}
    /\ (/\ pc = "done"
        /\ \E k \in 1 .. Len(output) :
              output[k] \in {"captions failed", "thumbnail failed"})
         => <<stage, UploadInfoPath>> \in writes
    /\ <<stage, UploadInfoPath>> \in writes
         => \E k \in 1 .. Len(output) : output[k] = "video_id"

\* nothing was asked of YouTube and no token was stored
NoUpload == output = <<>> /\ apiCalls = 0 /\ writes = {}

\* C20 as written: in the long-form uploader captions and thumbnail follow
\* the video response, their failure does not fail the run, upload_info.json
\* follows a successful upload, and there is neither authentication nor
\* upload under --dry-run or when the answer typed is not y
C20_UploadOrder ==
    stage = "upload_long"
        => /\ UploadOrder
           /\ (input.dry_run \/ input.answer # <<"y">>) => NoUpload

\* C20 with the answer as main() reads it: there is neither authentication
\* nor upload under --dry-run or when the answer, stripped of blanks and
\* lower-cased, is not y
C20_UploadOrderOfConfirm ==
    stage = "upload_long"
        => /\ UploadOrder
           /\ (input.dry_run \/ Lower(Strip(input.answer)) # <<"y">>)
                 => NoUpload

\* a confirmed run that uploaded the video, failed on the captions, sent the
\* thumbnail and ended normally with upload_info.json written
C20_Witness ==
    /\ stage = "upload_long" /\ pc = "done"
    /\ \E a, b, c \in 1 .. Len(output) :
         /\ a < b /\ b < c
         /\ output[a] = "video_id"
         /\ output[b] = "captions failed"
         /\ output[c] = "thumbnails.set"
    /\ <<stage, UploadInfoPath>> \in writes

\* one occurrence of each sentence of `claims`, in order, among `sentences`
TakenOnceFrom(claims, sentences) ==
    \E at \in [1 .. Len(claims) -> 1 .. Len(sentences)] :
        /\ \A k \in 1 .. Len(claims) : claims[k] = sentences[at[k]]
        /\ \A j, k \in 1 .. Len(claims) : j < k => at[j] < at[k]

\* C21: extract_claims returns no claim for a text none of whose sentences
\* holds a recognized pattern, at least one claim for a text that matches
\* the year pattern or the statistic pattern, and every claim returned is a
\* sentence of the text, each sentence being returned at most once
C21_ClaimsAreMatchingSentences ==
    Returned =>
        \E text \in {Flatten(input)} :
        \E sentences \in {Sentences(text)} :
        \E lower \in {Lower(text)} :
            /\ (\A n \in 1 .. Len(sentences) : ~HasPattern(sentences[n]))
                  => output = <<>>
            /\ (YearPattern(lower) \/ StatisticPattern(lower))
                  => output # <<>>
            /\ TakenOnceFrom(output, sentences)

\* "25.5 points": the number is cut at the point and the sentence after it
\* is the claim
C21_Witness ==
    /\ Returned
    /\ input = <<<<"2", "5">>, <<".">>, <<"5", " ", "p", "o", "i", "n", "t", "s">>>>
    /\ output = <<<<"5", " ", "p", "o", "i", "n", "t", "s">>>>

\* where the clip of segment i starts in the concatenated video: the summed
\* durations of the clips before it in the concat list
RECURSIVE ClipStart(_)
ClipStart(i) ==
    IF i = 0 THEN 0
    ELSE ClipStart(i - 1)
           + (IF (i - 1) \in input.rendered THEN input.durations[i - 1] ELSE 0)

\* C22: the cues of the SRT file have the times of the clips: the cue of
\* every rendered segment starts and ends where the clip of the segment
\* starts and ends in the concatenated video
C22_CuesFollowClips ==
    Returned =>
        \A i \in input.rendered :
            /\ output[i + 1].start = format_time(ClipStart(i))
            /\ output[i + 1].end
                 = format_time(ClipStart(i) + input.durations[i])

\* C23: when a text mentions several keywords, get_team_color returns the
\* color of the keyword whose occurrence comes earliest in the text
C23_FirstMentionedWins ==
    (Returned /\ Matching # {}) =>
        \E lower \in {Lower(Flatten(input))} :
        \E n \in Matching :
            /\ \A k \in Matching :
                  Position(F1_TEAM_COLORS[n].keyword, lower)
                      <= Position(F1_TEAM_COLORS[k].keyword, lower)
            /\ output = F1_TEAM_COLORS[n].color

\* C24: on the --url path the footage field is set and script.json is
\* rewritten only if the download produced the output file; when it failed
\* the manifest on disk is unchanged and "Download failed" is reported
C24_ManifestOnlyAfterDownload ==
    (stage = "footage_url" /\ pc = "done") =>
        LET output_file == FootagePath(SegmentName(input.segment))
        IN  /\ scriptWrites > 0 => output_file \in disk
            /\ output_file \notin disk
                 => /\ scriptDisk = script0
                    /\ scriptWrites = 0
                    /\ report = "failed"

\* C25: a segment the audio stage reports as failed has no audio file at its
\* target path when the stage ends, so that a later run finds nothing to
\* take as cached and attempts the segment again
C25_FailedLeavesNoFile ==
    (stage = "audio" /\ pc = "done") =>
        \A i \in Segs : res[i] = "fail" => AudioPath(i) \notin disk

\* the verdicts of the claim results of the returned check
ClaimVerdicts == [n \in 1 .. Len(output.claims) |-> output.claims[n].verdict]

\* C26: the overall verdict of check_segment is "no_claims" exactly when no
\* claim was extracted; otherwise it is "verified" exactly when every claim
\* is verified, "disputed" exactly when not every claim is verified and one
\* is disputed, "partially_verified" exactly when none is disputed, one is
\* verified and one is not, and "unverified" exactly when none is verified
\* or disputed
C26_OverallVerdict ==
    Returned =>
        \E v \in {ClaimVerdicts} : \E overall \in {output.overall_verdict} :
            LET every == \A n \in 1 .. Len(v) : v[n] = "verified"
                verified == \E n \in 1 .. Len(v) : v[n] = "verified"
                disputed == \E n \in 1 .. Len(v) : v[n] = "disputed"
            IN  /\ Len(v) = Len(input.claims)
                /\ overall = "no_claims" <=> input.claims = <<>>
                /\ input.claims # <<>> =>
                     /\ overall = "verified" <=> every
                     /\ overall = "disputed" <=> ~every /\ disputed
                     /\ overall = "partially_verified" <=>
                            ~disputed /\ verified /\ ~every
                     /\ overall = "unverified" <=> ~verified /\ ~disputed

\* a check returned with a verified and a disputed claim
C26_Witness ==
    /\ Returned
    /\ Len(input.claims) = 2
    /\ ClaimVerdicts = <<"verified", "disputed">>
    /\ output.overall_verdict = "disputed"

\* the sum of the five counters of the summary
StatsTotal(stats) ==
    stats["verified"] + stats["partially_verified"] + stats["unverified"]
        + stats["disputed"] + stats["no_claims"]

\* C27: a checked segment yields one overall verdict, one of verified,
\* partially_verified, unverified, disputed and no_claims, so that the
\* counter update of main() finds its counter and the five counters grow by
\* one with every segment checked; no claim result of check_claim carries
\* the verdict "error"
C27_OneKnownVerdict ==
    Returned =>
        /\ output.overall_verdict \in Verdicts
        /\ output.overall_verdict \in DOMAIN ZeroStats
        /\ StatsTotal(Tally(ZeroStats, output.overall_verdict)) = 1
        /\ \A n \in 1 .. Len(output.claims) :
               output.claims[n].verdict
                   \in {"verified", "unverified", "disputed"}

\* a check returned whose search request raised for a claim the knowledge
\* base does not know
C27_Witness ==
    /\ Returned
    /\ input.use_web /\ input.has_requests /\ input.api_key
    /\ \E n \in 1 .. Len(input.claims) :
           /\ input.responses[n] = "exception"
           /\ KnowledgeBase[input.claims[n]] = None
           /\ output.claims[n] = Result("unverified", 0, 1)

\* the words on a line: one more than its spaces
WordsOn(line) == Cardinality({n \in 1 .. Len(line) : line[n] = " "}) + 1

\* C28: wrap_text loses, duplicates, splits and reorders no word (its lines
\* joined by single spaces are the whitespace-separated words of the text
\* joined by single spaces), returns no empty line, and every line of more
\* than one word is at most max_chars characters long
C28_WrapKeepsWords ==
    Returned =>
        /\ Join(output) = Join(split(input.text, <<>>))
        /\ \A n \in 1 .. Len(output) :
               /\ output[n] # <<>>
               /\ WordsOn(output[n]) > 1 => Len(output[n]) <= input.max_chars

\* a text wrapped into a line of two words and a line of one word
C28_Witness ==
    /\ Returned
    /\ input.text = <<"a", "\n", "b", " ", "a">>
    /\ input.max_chars = 4
    /\ output = <<<<"a", " ", "b">>, <<"a">>>>

\* C29: extract_frames returns the frames in ascending order of timestamp,
\* each once, and they are the sampled timestamps 0, interval, ... below the
\* duration whose extraction produced a file, whatever the order in which
\* the extractions completed and in the concurrent as in the sequential
\* branch
C29_FramesOfThisExtraction ==
    \A i \in Segs :
        (stage = "preview" /\ task[i] = "collected" /\ res[i] = "ok") =>
            /\ \A m, n \in 1 .. Len(frames[i]) :
                   m < n => frames[i][m] < frames[i][n]
            /\ Range(frames[i]) =
                   {t \in Sampled : <<stage, PreviewPath(i, t)>> \in writes}

\* C30: whenever generate_thumbnail returns after it found the video and the
\* script, with the thumbnail or after a failed frame extraction or text
\* overlay, output/temp_frame.jpg is not on disk
C30_TempFrameRemoved ==
    (/\ stage = "thumbnail"
     /\ {FinalPath, ScriptPath} \subseteq disk0
     /\ pc \in {"done", "exit1"})
        => TempFramePath \notin disk

====
